---- MODULE Spec2Model ----
(***************************************************************************)
(* The session state machine of the "67 Escape Room" game: the zustand     *)
(* store of state.ts, the timers it schedules with setTimeout, and the UI  *)
(* callers that drive it (GameRoot, Screens, GameScene, InteractRaycaster, *)
(* PlayerController, MobileControls, Chest).                               *)
(*                                                                         *)
(* Time.  `now` is Date.now() in milliseconds.  The store keeps            *)
(* timeElapsed in seconds, (Date.now() - startTime) / 1000; the model      *)
(* keeps it in milliseconds, so that all arithmetic stays in the integers  *)
(* (Date.now() is an integer and every delay of the program is a whole     *)
(* number of milliseconds).  The clock advances in steps of ClockStep, a   *)
(* rendered frame runs at every step, and further frames and events may    *)
(* run between two steps.  A setTimeout callback runs once its delay has   *)
(* elapsed and before the clock advances again.                            *)
(***************************************************************************)
EXTENDS Integers, Sequences, FiniteSets, TLC

VARIABLES
  phase,              \* GamePhase
  difficulty,         \* Difficulty
  currentLevelIndex,  \* index into LEVELS (0-based, as in the source)
  runId,              \* the run identifier: the number of runs generated so far
  startTime,          \* ms
  timeElapsed,        \* ms (seconds * 1000)
  wrongSelections,
  targets,            \* sequence of [id, found]
  foundCount,
  requiredCount,
  decoys,             \* sequence of [id, revealed]
  inventory,          \* sequence of tools [id, type]
  toasts,             \* sequence of [message, type, expires]
  chestOpen,
  chestTools,         \* sequence of tools [id, type]
  isPointerLocked,
  isMobileDevice,
  mobileGameStarted,
  now,                \* Date.now(), ms
  winTimers,          \* pending setTimeout callbacks of findTarget: sequence of [due]
  log,                \* POSTs to /api/log: [count, last, pending, failed]
  hist,               \* history of the current run (observation only)
  scope,              \* what a behaviour covers: [steps, toolSpawns, timing], fixed
  hintedTargetId,     \* id of the hinted target, or None (null)
  hintEndTime,        \* ms
  revealQuadrant,     \* Quadrant, or "null"
  revealEndTime,      \* ms
  shareData,          \* App: the SharedScoreModal is shown
  probe,              \* arguments and results of the functions applied on their own
  ray                 \* InteractRaycaster: its state, its refs and the camera it reads

hintVars == <<hintedTargetId, hintEndTime, revealQuadrant, revealEndTime>>

vars == <<phase, difficulty, currentLevelIndex, runId, startTime, timeElapsed,
          wrongSelections, targets, foundCount, requiredCount, decoys, inventory,
          toasts, chestOpen, chestTools, isPointerLocked, isMobileDevice,
          mobileGameStarted, now, winTimers, log, hist, scope,
          hintVars, shareData, probe, ray>>

\* the store and what surrounds it
sessionVars == <<phase, difficulty, currentLevelIndex, runId, startTime, timeElapsed,
                 wrongSelections, targets, foundCount, requiredCount, decoys,
                 inventory, toasts, chestOpen, chestTools, isPointerLocked,
                 isMobileDevice, mobileGameStarted, now, winTimers, log, hist,
                 scope, hintVars, shareData>>

(***************************************************************************)
(* Bounds of the model.                                                    *)
(***************************************************************************)
MaxSteps == 1       \* clock steps of a behaviour of Spec
MaxTimerSteps == 3  \* clock steps of a behaviour of SpecTimer
MaxRuns == 2        \* at most this many runs are started
MaxDecoyPool == 1   \* size of a level's candidateDecoys pool
MaxToasts == 5      \* toasts on screen when the store is called directly
RngResolution == 3  \* next() takes the values k / RngResolution, 0 <= k < RngResolution
MaxToolIds == 2     \* values generateToolId() can return
MaxArrayLen == 3    \* length of the arrays sample is applied to on its own
MaxOffset == 3      \* largest |x|, |z| of a position classified on its own, in units
MaxScore == 1000    \* largest |score| of a shared result
MaxDamage == 40     \* positions from either end at which an encoded text is damaged
MaxTargetPool == 6  \* candidateTargets of a level given on its own
MaxDecoyCandidates == 2  \* candidateDecoys of a level given on its own
MaxHoldSteps == 9   \* clock steps of a session in which items are held
MaxToolSteps == 15  \* clock steps of a session in which tools run out

(***************************************************************************)
(* Program constants.                                                      *)
(***************************************************************************)
WIN_DELAY_MS == 500
TOAST_MS == 3000
INVENTORY_CAP == 4
PENALTY_SECONDS == 10
CANDIDATE_HOLD_SECONDS == 5   \* holdSecondsRequired of every candidate in levelConfigs.ts

ClockStep == WIN_DELAY_MS

GamePhase == {"name_entry", "menu", "playing", "paused", "won"}
Difficulty == {"easy", "normal", "hard"}
ToolType == <<"hint", "reveal">>

DIFFICULTY_SETTINGS ==
  [easy   |-> [holdSeconds |-> 3, targetCount |-> 5, decoyCount |-> 2],
   normal |-> [holdSeconds |-> 4, targetCount |-> 5, decoyCount |-> 4],
   hard   |-> [holdSeconds |-> 5, targetCount |-> 5, decoyCount |-> 6]]

\* LEVELS: the number of candidateTargets of bedroom_01, living_room_01, classroom_01
LEVELS == <<[candidateTargets |-> 8], [candidateTargets |-> 9], [candidateTargets |-> 9]>>

\* the (x, z) positions of the candidateTargets of the three levels, in tenths
candidateTargetPositions ==
  << {<<40, -45>>, <<-53, 10>>, <<54, 5>>, <<-30, 0>>, <<0, -58>>, <<30, -58>>,
      <<10, 0>>, <<-54, -30>>},
     {<<0, -44>>, <<5, 0>>, <<-63, -10>>, <<-5, 3>>, <<-50, 35>>, <<63, -25>>,
      <<-30, -48>>, <<68, 0>>},
     {<<40, -58>>, <<-40, 0>>, <<8, -45>>, <<-40, -58>>, <<78, 0>>, <<-70, 20>>,
      <<75, -40>>, <<-20, -58>>, <<-78, -30>>} >>

\* the candidateDecoys pool of a level
candidateDecoys(levelIndex) == MaxDecoyPool

Min(a, b) == IF a < b THEN a ELSE b

None == -1

(***************************************************************************)
(* Run generation (selectTargets, selectDecoys, generateChestTools).  The  *)
(* run id is random, so the seeded draws are choices of the environment;   *)
(* what reaches the session state is the number of items drawn, their ids  *)
(* (positional: target_<index>_<type>) and their cleared flags.            *)
(***************************************************************************)
\* variant: the whole shuffled array is returned
sampleSizeWhole(poolSize, n) == poolSize

sampleSize(poolSize, n) == Min(n, poolSize)

\* variant: the new targets keep the found flags of the old ones
selectTargetsKeepingFound(levelIndex, diff) ==
  [i \in 1..sampleSize(LEVELS[levelIndex + 1].candidateTargets,
                       DIFFICULTY_SETTINGS[diff].targetCount) |->
      [id |-> i, found |-> i <= Len(targets) /\ targets[i].found]]

selectTargets(levelIndex, diff) ==
  [i \in 1..sampleSize(LEVELS[levelIndex + 1].candidateTargets,
                       DIFFICULTY_SETTINGS[diff].targetCount) |->
      [id |-> i, found |-> FALSE]]

selectDecoys(levelIndex, diff) ==
  [i \in 1..sampleSize(candidateDecoys(levelIndex),
                       Min(DIFFICULTY_SETTINGS[diff].decoyCount, candidateDecoys(levelIndex))) |->
      [id |-> i, revealed |-> FALSE]]

\* generateToolId(): Date.now() and Math.random() decide it
generateToolId == 1..MaxToolIds

\* the lists generateChestTools can return: each type spawns or not, in the
\* order hint, reveal; on easy an empty list gets one picked type; at most 2;
\* every tool gets the id that its call of generateToolId() returns
generateChestTools(diff) ==
  LET spawned == IF scope.toolSpawns
                 THEN {<<>>, <<"hint">>, <<"reveal">>, <<"hint", "reveal">>}
                 ELSE {<<>>}
      types == IF diff = "easy" /\ spawned # {<<>>} THEN spawned \ {<<>>} ELSE spawned
  IN  {[i \in 1..Len(ts) |-> [id |-> ids[i], type |-> ts[i]]] :
         ts \in types, ids \in [1..2 -> generateToolId]}

(***************************************************************************)
(* rng.ts.  A generator is createRNG(seed); its outputs depend on the seed *)
(* only, so a generator is the stream of values its next() returns, and    *)
(* two generators made from one seed are one stream.  A value u of the     *)
(* stream stands for next() = u / RngResolution, in [0, 1).                *)
(***************************************************************************)
NoProbe == [kind |-> "none"]

RngValues == 0..(RngResolution - 1)

\* Math.floor(next() * k)
floorTimes(u, k) == (u * k) \div RngResolution

\* bool(probability): next() < probability, the probability in 1/10000
bool(u, probability) == u * 10000 < probability * RngResolution

\* pick(array): array[Math.floor(next() * array.length)]
pick(array, u) == array[floorTimes(u, Len(array)) + 1]

swap(array, i, j) == [array EXCEPT ![i] = array[j], ![j] = array[i]]

\* the Fisher-Yates loop of sample from (1-based) index i down: one draw per
\* iteration, the first iteration taking the first value of the stream
RECURSIVE shuffledFrom(_, _, _)
shuffledFrom(array, i, stream) ==
  IF i <= 1
  THEN array
  ELSE shuffledFrom(swap(array, i, floorTimes(stream[Len(array) - i + 1], i) + 1),
                    i - 1, stream)

\* sample(array, n): shuffled.slice(0, Math.min(n, shuffled.length))
sample(array, n, stream) ==
  SubSeq(shuffledFrom(array, Len(array), stream), 1, sampleSize(Len(array), n))

(***************************************************************************)
(* Run generation in full: what selectTargets, selectDecoys and            *)
(* generateChestTools return for a level, a difficulty and the stream of   *)
(* the generator seeded with createGameSeed(level.id, runId + suffix).  A  *)
(* candidate is named by its index in the level's list, which fixes its    *)
(* type and position.                                                      *)
(***************************************************************************)
\* level.toolSpawnChance, in 1/1000
toolSpawnChance == <<400, 350, 350>>

\* the types of the candidateTargets of the three levels, in list order
candidateTargetTypes ==
  << <<"digital_clock", "book_page", "sticky_note", "price_tag",
       "calendar", "phone_poster", "angle_blocks", "tv_subtitle">>,
     <<"scoreboard", "book_page", "digital_clock", "phone_poster",
       "sticky_note", "price_tag", "calendar", "keypad", "tv_subtitle">>,
     <<"digital_clock", "book_page", "sticky_note", "calendar",
       "phone_poster", "angle_blocks", "price_tag", "scoreboard", "keypad">> >>

\* a candidate of a level as levelConfigs.ts lists it; `candidate` is its
\* index in the list, standing for its position and the rest of its fields
candidateTarget(levelIndex, c) ==
  [id |-> <<"candidate", c>>, candidate |-> c,
   type |-> candidateTargetTypes[levelIndex + 1][c],
   found |-> FALSE, holdSecondsRequired |-> CANDIDATE_HOLD_SECONDS]

candidateDecoy(levelIndex, c) ==
  [id |-> <<"candidate", c>>, candidate |-> c, type |-> "wrong_clock",
   revealed |-> FALSE, holdSecondsRequired |-> CANDIDATE_HOLD_SECONDS]

\* selectedTargets.map(...): the candidate's fields, then the new id, the
\* cleared flag and the hold time of the difficulty
targetsKeepingHold(picked, diff) ==
  [i \in 1..Len(picked) |->
     [picked[i] EXCEPT !.id = <<"target", i - 1, picked[i].type>>, !.found = FALSE]]

mapTargets(picked, diff) ==
  [i \in 1..Len(picked) |->
     [picked[i] EXCEPT !.id = <<"target", i - 1, picked[i].type>>,
                       !.found = FALSE,
                       !.holdSecondsRequired = DIFFICULTY_SETTINGS[diff].holdSeconds]]

mapDecoys(picked, diff) ==
  [i \in 1..Len(picked) |->
     [picked[i] EXCEPT !.id = <<"decoy", i - 1, picked[i].type>>,
                       !.revealed = FALSE,
                       !.holdSecondsRequired = DIFFICULTY_SETTINGS[diff].holdSeconds]]

targetsCountedAsDecoys(candidates, diff, stream) ==
  mapTargets(sample(candidates, DIFFICULTY_SETTINGS[diff].decoyCount, stream), diff)

\* selectTargets and selectDecoys for the candidate lists of a level
targetsFrom(candidates, diff, stream) ==
  mapTargets(sample(candidates, DIFFICULTY_SETTINGS[diff].targetCount, stream), diff)

decoysFrom(candidates, diff, stream) ==
  mapDecoys(sample(candidates,
                   Min(DIFFICULTY_SETTINGS[diff].decoyCount, Len(candidates)), stream),
            diff)

selectedTargets(levelIndex, diff, stream) ==
  targetsFrom([c \in 1..LEVELS[levelIndex + 1].candidateTargets |->
                 candidateTarget(levelIndex, c)], diff, stream)

selectedDecoys(levelIndex, diff, stream) ==
  decoysFrom([c \in 1..candidateDecoys(levelIndex) |-> candidateDecoy(levelIndex, c)],
             diff, stream)

toolsWithoutEasyGuarantee(levelIndex, diff, stream, ids) ==
  LET chance == toolSpawnChance[levelIndex + 1] * 7
      spawned == SelectSeq(<<1, 2>>, LAMBDA k : bool(stream[k], chance))
  IN  [k \in 1..Len(spawned) |-> [id |-> ids[k], type |-> ToolType[spawned[k]]]]

\* the tools generateChestTools returns when its calls of generateToolId()
\* return ids[1], ids[2], ...
tools(levelIndex, diff, stream, ids) ==
  LET chance == toolSpawnChance[levelIndex + 1] * 7
      spawned == SelectSeq(<<1, 2>>, LAMBDA k : bool(stream[k], chance))
      types == IF diff = "easy" /\ spawned = <<>>
               THEN <<pick(ToolType, stream[3])>>
               ELSE [k \in 1..Len(spawned) |-> ToolType[spawned[k]]]
  IN  SubSeq([k \in 1..Len(types) |-> [id |-> ids[k], type |-> types[k]]],
             1, Min(2, Len(types)))

(***************************************************************************)
(* share.ts.  A string is the sequence of its characters, a character is   *)
(* its code point (below 0x800 in all the strings used here), and a binary *)
(* string is a sequence of bytes.  A JavaScript value is a record:         *)
(*   [t |-> "string", s |-> characters]                                    *)
(*   [t |-> "number", finite |-> TRUE, n |-> an integer]                   *)
(*   [t |-> "number", finite |-> FALSE, n |-> 0 (NaN), 1 or -1 (Infinity)] *)
(*   [t |-> "boolean", b |-> ...], [t |-> "null"], [t |-> "undefined"]     *)
(*   [t |-> "object", keys |-> the keys in insertion order, vals |-> ...]  *)
(* A built-in that can throw returns Thrown when it throws and             *)
(* [ok |-> TRUE, out |-> result] otherwise.                                *)
(***************************************************************************)
Null == [t |-> "null"]
Thrown == [ok |-> FALSE]

\* the property names of ShareData, as characters
ShareKeys ==
  [playerName |-> <<112, 108, 97, 121, 101, 114, 78, 97, 109, 101>>,
   score      |-> <<115, 99, 111, 114, 101>>,
   level      |-> <<108, 101, 118, 101, 108>>,
   difficulty |-> <<100, 105, 102, 102, 105, 99, 117, 108, 116, 121>>]

\* the literals null, true and false of JSON, as characters
jsonLiterals ==
  [null  |-> <<110, 117, 108, 108>>,
   true  |-> <<116, 114, 117, 101>>,
   false |-> <<102, 97, 108, 115, 101>>]

\* the texts of a sequence joined, by halves
RECURSIVE concat(_)
concat(texts) ==
  IF Len(texts) = 0 THEN <<>>
  ELSE IF Len(texts) = 1 THEN texts[1]
  ELSE concat(SubSeq(texts, 1, Len(texts) \div 2))
         \o concat(SubSeq(texts, Len(texts) \div 2 + 1, Len(texts)))

\* the decimal digits of a natural number
RECURSIVE digits(_)
digits(n) == IF n < 10 THEN <<48 + n>> ELSE Append(digits(n \div 10), 48 + (n % 10))

\* JSON.stringify of a string: quotes, with " and \ escaped
quoted(s) ==
  <<34>> \o concat([i \in 1..Len(s) |->
                      IF s[i] = 34 \/ s[i] = 92 THEN <<92, s[i]>> ELSE <<s[i]>>])
         \o <<34>>

\* JSON.stringify(value): a number that is not finite is written as null
RECURSIVE stringify(_)
stringify(value) ==
  CASE value.t = "string"  -> quoted(value.s)
    [] value.t = "number"  -> IF ~value.finite THEN jsonLiterals.null
                              ELSE IF value.n < 0 THEN <<45>> \o digits(-value.n)
                              ELSE digits(value.n)
    [] value.t = "boolean" -> IF value.b THEN jsonLiterals.true ELSE jsonLiterals.false
    [] value.t = "null"    -> jsonLiterals.null
    [] value.t = "object"  ->
         <<123>> \o concat([i \in 1..Len(value.keys) |->
                              (IF i > 1 THEN <<44>> ELSE <<>>)
                                \o quoted(value.keys[i]) \o <<58>>
                                \o stringify(value.vals[i])])
                 \o <<125>>

\* encodeURIComponent(text): A-Z a-z 0-9 - _ . ! ~ * ' ( ) stay, every other
\* character becomes %XX for each of its UTF-8 bytes
encodeURIComponent(text) ==
  LET unreserved(c) ==
        \/ c \in 65..90 \/ c \in 97..122 \/ c \in 48..57
        \/ c \in {45, 95, 46, 33, 126, 42, 39, 40, 41}
      hexDigit(n) == IF n < 10 THEN 48 + n ELSE 55 + n
      percent(byte) == <<37, hexDigit(byte \div 16), hexDigit(byte % 16)>>
      utf8(c) == IF c < 128 THEN <<c>> ELSE <<192 + (c \div 64), 128 + (c % 64)>>
  IN  concat([i \in 1..Len(text) |->
                IF unreserved(text[i]) THEN <<text[i]>>
                ELSE concat([k \in 1..Len(utf8(text[i])) |-> percent(utf8(text[i])[k])])])

\* btoa(text): base64 with the alphabet A-Z a-z 0-9 + / and = padding; it
\* throws on a character above 0xFF
btoa(text) ==
  LET char(i) == IF i < 26 THEN 65 + i
                 ELSE IF i < 52 THEN 97 + (i - 26)
                 ELSE IF i < 62 THEN 48 + (i - 52)
                 ELSE IF i = 62 THEN 43 ELSE 47
      b == text
      \* the four characters of the group of up to three bytes starting at b[i]
      group(i) ==
        IF i = Len(b)
        THEN <<char(b[i] \div 4), char((b[i] % 4) * 16), 61, 61>>
        ELSE IF i + 1 = Len(b)
        THEN <<char(b[i] \div 4), char((b[i] % 4) * 16 + b[i + 1] \div 16),
               char((b[i + 1] % 16) * 4), 61>>
        ELSE <<char(b[i] \div 4), char((b[i] % 4) * 16 + b[i + 1] \div 16),
               char((b[i + 1] % 16) * 4 + b[i + 2] \div 64), char(b[i + 2] % 64)>>
  IN  IF \E i \in 1..Len(text) : text[i] > 255 THEN Thrown
      ELSE [ok |-> TRUE,
            out |-> concat([g \in 1..((Len(b) + 2) \div 3) |-> group(3 * g - 2)])]

\* atob(text): ASCII whitespace is removed, then one or two = at the end of a
\* text whose length is a multiple of 4; it throws on a length of 4k + 1 and
\* on a character outside the alphabet; the bits left over are dropped
atob(text) ==
  LET index(c) == IF c \in 65..90 THEN c - 65
                  ELSE IF c \in 97..122 THEN c - 97 + 26
                  ELSE IF c \in 48..57 THEN c - 48 + 52
                  ELSE IF c = 43 THEN 62
                  ELSE IF c = 47 THEN 63 ELSE -1
      stripped == SelectSeq(text, LAMBDA c : c \notin {9, 10, 12, 13, 32})
      n == Len(stripped)
      pad == IF n % 4 = 0 /\ n > 0 /\ stripped[n] = 61
             THEN IF stripped[n - 1] = 61 THEN 2 ELSE 1
             ELSE 0
      data == SubSeq(stripped, 1, n - pad)
      x == [i \in 1..Len(data) |-> index(data[i])]
      \* the bytes of the group of up to four indices starting at x[i]
      group(i) ==
        IF i = Len(x) THEN <<>>
        ELSE IF i + 1 = Len(x) THEN <<x[i] * 4 + x[i + 1] \div 16>>
        ELSE IF i + 2 = Len(x)
        THEN <<x[i] * 4 + x[i + 1] \div 16, (x[i + 1] % 16) * 16 + x[i + 2] \div 4>>
        ELSE <<x[i] * 4 + x[i + 1] \div 16, (x[i + 1] % 16) * 16 + x[i + 2] \div 4,
               (x[i + 2] % 4) * 64 + x[i + 3]>>
  IN  IF Len(data) % 4 = 1 \/ \E i \in 1..Len(data) : index(data[i]) = -1
      THEN Thrown
      ELSE [ok |-> TRUE,
            out |-> concat([g \in 1..((Len(x) + 3) \div 4) |-> group(4 * g - 3)])]

\* decodeURIComponent(text): every % starts an escape %XX; the escaped bytes
\* are read as UTF-8 (sequences of one and two bytes; the texts used here
\* hold no longer ones).  It throws on a % without two hex digits and on
\* bytes that are not UTF-8.
decodeURIComponent(text) ==
  LET hexValue(c) == IF c \in 48..57 THEN c - 48
                     ELSE IF c \in 65..70 THEN c - 55
                     ELSE IF c \in 97..102 THEN c - 87 ELSE -1
      \* the byte written as %XX at position i, or -1
      byte(i) ==
        IF i + 2 <= Len(text) /\ text[i] = 37
           /\ hexValue(text[i + 1]) >= 0 /\ hexValue(text[i + 2]) >= 0
        THEN hexValue(text[i + 1]) * 16 + hexValue(text[i + 2])
        ELSE -1
      lead(i) == byte(i) \in 194..223 /\ byte(i + 3) \in 128..191
      trail(i) == i > 3 /\ byte(i) \in 128..191 /\ lead(i - 3)
      malformed(i) ==
        /\ text[i] = 37
        /\ \/ byte(i) = -1
           \/ byte(i) >= 128 /\ ~lead(i) /\ ~trail(i)
      decoded(i) ==
        IF text[i] = 37
        THEN IF byte(i) < 128 THEN <<byte(i)>>
             ELSE IF lead(i) THEN <<(byte(i) - 192) * 64 + (byte(i + 3) - 128)>>
             ELSE <<>>
        ELSE IF (i > 1 /\ text[i - 1] = 37) \/ (i > 2 /\ text[i - 2] = 37) THEN <<>>
        ELSE <<text[i]>>
  IN  IF \E i \in 1..Len(text) : malformed(i) THEN Thrown
      ELSE [ok |-> TRUE, out |-> concat([i \in 1..Len(text) |-> decoded(i)])]

\* JSON.parse: a parser answers [ok, out, next]: the value read and the
\* position after it.  Strings with the escapes \" \\ \/, integers, the
\* three literals and objects are read; anything else throws.
RECURSIVE skipSpace(_, _)
skipSpace(text, i) ==
  IF i <= Len(text) /\ text[i] \in {9, 10, 13, 32} THEN skipSpace(text, i + 1) ELSE i

\* the rest of a string from position i on, after the characters in acc; j is
\* the first position that holds ", \ or a control character
RECURSIVE stringBody(_, _, _)
stringBody(text, i, acc) ==
  LET stops == {k \in i..Len(text) : text[k] \in {34, 92} \/ text[k] < 32}
      j == IF stops = {} THEN Len(text) + 1
           ELSE CHOOSE k \in stops : \A other \in stops : k <= other
      read == acc \o SubSeq(text, i, j - 1)
  IN  IF j > Len(text) \/ text[j] < 32 THEN Thrown
      ELSE IF text[j] = 34
      THEN [ok |-> TRUE, out |-> [t |-> "string", s |-> read], next |-> j + 1]
      ELSE IF j + 1 <= Len(text) /\ text[j + 1] \in {34, 92, 47}
      THEN stringBody(text, j + 2, Append(read, text[j + 1]))
      ELSE Thrown

RECURSIVE numberBody(_, _, _)
numberBody(text, i, acc) ==
  IF i <= Len(text) /\ text[i] \in 48..57
  THEN numberBody(text, i + 1, acc * 10 + (text[i] - 48))
  ELSE [ok |-> TRUE, out |-> acc, next |-> i]

\* -? ( 0 | [1-9][0-9]* ), not followed by a fraction or an exponent
parseNumber(text, i) ==
  LET negative == i <= Len(text) /\ text[i] = 45
      j == IF negative THEN i + 1 ELSE i
      body == IF j <= Len(text) /\ text[j] = 48
              THEN [ok |-> TRUE, out |-> 0, next |-> j + 1]
              ELSE numberBody(text, j, 0)
  IN  IF j > Len(text) \/ text[j] \notin 48..57 THEN Thrown
      ELSE IF body.next <= Len(text) /\ text[body.next] \in 48..57 THEN Thrown
      ELSE IF body.next <= Len(text) /\ text[body.next] \in {46, 69, 101} THEN Thrown
      ELSE [ok |-> TRUE,
            out |-> [t |-> "number", finite |-> TRUE,
                     n |-> IF negative THEN -body.out ELSE body.out],
            next |-> body.next]

RECURSIVE parseValue(_, _)
RECURSIVE parseMembers(_, _, _, _)

\* the members of an object from position i (at a key) on; a key read twice
\* keeps its place and takes the later value
parseMembers(text, i, keys, vals) ==
  IF i > Len(text) \/ text[i] # 34 THEN Thrown
  ELSE LET key == stringBody(text, i + 1, <<>>) IN
       IF ~key.ok THEN Thrown
       ELSE LET colon == skipSpace(text, key.next) IN
            IF colon > Len(text) \/ text[colon] # 58 THEN Thrown
            ELSE LET val == parseValue(text, skipSpace(text, colon + 1)) IN
                 IF ~val.ok THEN Thrown
                 ELSE LET after == skipSpace(text, val.next)
                          held == {k \in 1..Len(keys) : keys[k] = key.out.s}
                          keys2 == IF held = {} THEN Append(keys, key.out.s) ELSE keys
                          vals2 == IF held = {} THEN Append(vals, val.out)
                                   ELSE [k \in 1..Len(vals) |->
                                           IF k \in held THEN val.out ELSE vals[k]]
                      IN
                      IF after > Len(text) THEN Thrown
                      ELSE IF text[after] = 125
                      THEN [ok |-> TRUE,
                            out |-> [t |-> "object", keys |-> keys2, vals |-> vals2],
                            next |-> after + 1]
                      ELSE IF text[after] = 44
                      THEN parseMembers(text, skipSpace(text, after + 1), keys2, vals2)
                      ELSE Thrown

parseValue(text, i) ==
  LET startsWith(word) ==
        i + Len(word) - 1 <= Len(text) /\ SubSeq(text, i, i + Len(word) - 1) = word
  IN  IF i > Len(text) THEN Thrown
      ELSE IF text[i] = 34 THEN stringBody(text, i + 1, <<>>)
      ELSE IF text[i] = 45 \/ text[i] \in 48..57 THEN parseNumber(text, i)
      ELSE IF startsWith(jsonLiterals.null)
      THEN [ok |-> TRUE, out |-> Null, next |-> i + 4]
      ELSE IF startsWith(jsonLiterals.true)
      THEN [ok |-> TRUE, out |-> [t |-> "boolean", b |-> TRUE], next |-> i + 4]
      ELSE IF startsWith(jsonLiterals.false)
      THEN [ok |-> TRUE, out |-> [t |-> "boolean", b |-> FALSE], next |-> i + 5]
      ELSE IF text[i] = 123
      THEN LET j == skipSpace(text, i + 1) IN
           IF j <= Len(text) /\ text[j] = 125
           THEN [ok |-> TRUE, out |-> [t |-> "object", keys |-> <<>>, vals |-> <<>>],
                 next |-> j + 1]
           ELSE parseMembers(text, j, <<>>, <<>>)
      ELSE Thrown

\* JSON.parse(text)
parse(text) ==
  LET val == parseValue(text, skipSpace(text, 1)) IN
  IF val.ok /\ skipSpace(text, val.next) = Len(text) + 1
  THEN [ok |-> TRUE, out |-> val.out]
  ELSE Thrown

\* typeof data[key] === type, inside the try block: reading a property of
\* null throws, a value that is no object and an object without the key give
\* undefined
hasType(data, key, type) ==
  IF data.t = "null" THEN Thrown
  ELSE IF data.t # "object" \/ \A k \in 1..Len(data.keys) : data.keys[k] # key
  THEN [ok |-> TRUE, out |-> "undefined" = type]
  ELSE [ok |-> TRUE,
        out |-> data.vals[CHOOSE k \in 1..Len(data.keys) : data.keys[k] = key].t = type]

\* encodeShareData(data): btoa(encodeURIComponent(JSON.stringify(data)))
encodeShareData(data) == btoa(encodeURIComponent(stringify(data)))

\* decodeShareData(encoded): null when a step throws or a field is missing
\* or of another type, the parsed data otherwise
decodeShareData(encoded) ==
  LET binary == atob(encoded)
      json == IF binary.ok THEN decodeURIComponent(binary.out) ELSE Thrown
      data == IF json.ok THEN parse(json.out) ELSE Thrown
      name == hasType(data.out, ShareKeys.playerName, "string")
      score == hasType(data.out, ShareKeys.score, "number")
      level == hasType(data.out, ShareKeys.level, "string")
      diff == hasType(data.out, ShareKeys.difficulty, "string")
  IN  IF ~data.ok THEN Null
      ELSE IF ~name.ok THEN Null
      ELSE IF name.out /\ score.out /\ level.out /\ diff.out THEN data.out
      ELSE Null

(***************************************************************************)
(* Helpers of the store.                                                   *)
(***************************************************************************)
\* addToast: append the toast; its setTimeout removes it TOAST_MS later
addToast(ts, message, type) ==
  Append(ts, [message |-> message, type |-> type, expires |-> now + TOAST_MS])

\* Math.round(x * 10) / 10 on seconds, here on milliseconds
roundTenth(ms) == ((ms + 50) \div 100) * 100

\* variant: the score is the time alone
getFinalScoreTimeOnly(elapsed, wrong) == elapsed

getFinalScore(elapsed, wrong) == elapsed + wrong * PENALTY_SECONDS * 1000

\* fetch('/api/log', ...): one more request sent and in flight
posted(l, body) == [l EXCEPT !.count = @ + 1, !.last = body, !.pending = @ + 1]

logGameStart(l, diff, levelIndex) ==
  posted(l, [eventType |-> "game_start", difficulty |-> diff, level |-> levelIndex])

logGameEnd(l) ==
  posted(l, [eventType |-> "game_end", difficulty |-> difficulty,
             level |-> currentLevelIndex, result |-> "won",
             targetsFound |-> foundCount, requiredCount |-> requiredCount,
             timeElapsed |-> roundTenth(timeElapsed),
             wrongSelections |-> wrongSelections,
             finalScore |-> roundTenth(getFinalScore(timeElapsed, wrongSelections))])

\* variant: a rejected request is sent again
rejectedAndRetried(l) == [l EXCEPT !.failed = @ + 1, !.count = @ + 1]

\* .catch(err => console.warn(...)): the request is over, nothing else happens
rejected(l) == [l EXCEPT !.pending = @ - 1, !.failed = @ + 1]

\* the promise of fetch resolves: nobody looks at the response
resolved(l) == [l EXCEPT !.pending = @ - 1]

\* variant: a lookup that falls back on the first item
indexOfIdOrFirst(items, id) ==
  IF \E i \in 1..Len(items) : items[i].id = id
  THEN CHOOSE i \in 1..Len(items) :
         /\ items[i].id = id
         /\ \A j \in 1..(i - 1) : items[j].id # id
  ELSE IF items # <<>> THEN 1 ELSE None

\* Array.prototype.findIndex on the id: the first match, or None (-1)
indexOfId(items, id) ==
  IF \E i \in 1..Len(items) : items[i].id = id
  THEN CHOOSE i \in 1..Len(items) :
         /\ items[i].id = id
         /\ \A j \in 1..(i - 1) : items[j].id # id
  ELSE None

\* hist observes the calls of the current run (its pause and engagement
\* fields in the behaviours with scope.timing only):
\*   pausedAt     the clock at the pauseGame that paused the run (while paused)
\*   resumedAt, elapsedAtPause, pausedFor
\*                after a resumeGame: the clock at that call, timeElapsed at
\*                the pauseGame it answers and the time between the two calls
\*   completedAt  the clock when foundCount reached requiredCount
\*   wins         the number of phase changes to won
\*   engagedAt    the clock when the player first became engaged
NoHist == [pausedAt |-> None, resumedAt |-> None, elapsedAtPause |-> None,
           pausedFor |-> None, completedAt |-> None, wins |-> 0,
           engagedAt |-> None]

(***************************************************************************)
(* InteractRaycaster: its state and what the camera sees.                  *)
(***************************************************************************)
\* TARGET_DOT_THRESHOLD = 0.85; a cosine is held in thousandths
TARGET_DOT_THRESHOLD == 850

\* what the camera sees of the first two targets and of the first decoy of
\* the run (every other item is further than its interactRadius + 1): the
\* item is within interactRadius + 1 of the camera (inRange), the camera is
\* within the item's vantage zone (inZone), and the cosine between the view
\* direction and the direction to the item (dot)
Cameras ==
  LET ahead == [inRange : {TRUE}, inZone : {TRUE}, dot : {850, 900, 950}]
      far   == [inRange |-> FALSE, inZone |-> TRUE, dot |-> 950]
      out   == [inRange |-> TRUE, inZone |-> FALSE, dot |-> 950]
  IN  [targets : ({s \in ahead : s.dot # 850} \cup {far, out}) \X (ahead \cup {far}),
       decoys  : {<<s>> : s \in {[inRange |-> TRUE, inZone |-> TRUE, dot |-> 900],
                                 far, out}}]

\* the component as mounted: useState(null), useState(0), useState(false),
\* useRef(null), facing a wall. hoveredItem is { type, item }, of which the id
\* and the holdSecondsRequired of the item are kept (type "none": null).
\* Observation only: atDown, the run at the handleMouseDown of the hold in
\* progress; released, after a handleMouseUp, whether it ended a hold that had
\* made progress (1) or not (0)
NoRay ==
  [hoveredItem |-> [type |-> "none", id |-> 0, holdSecondsRequired |-> 0], holdProgress |-> 0, isHolding |-> FALSE,
   holdStartTime |-> None,
   camera |-> [targets |-> <<[inRange |-> FALSE, inZone |-> TRUE, dot |-> 950],
                             [inRange |-> FALSE, inZone |-> TRUE, dot |-> 950]>>,
               decoys  |-> <<[inRange |-> FALSE, inZone |-> TRUE, dot |-> 950]>>],
   atDown |-> [foundCount |-> 0, wrongSelections |-> 0, targets |-> <<>>,
               decoys |-> <<>>],
   released |-> None]

(***************************************************************************)
(* The state after construction of the store.                              *)
(***************************************************************************)
\* the store after create(), with no function applied on its own
InitialState ==
  /\ phase = "name_entry"
  /\ difficulty = "normal"
  /\ currentLevelIndex = 0
  /\ runId = 0
  /\ startTime = 0
  /\ timeElapsed = 0
  /\ wrongSelections = 0
  /\ targets = <<>>
  /\ foundCount = 0
  /\ requiredCount = 5
  /\ decoys = <<>>
  /\ inventory = <<>>
  /\ toasts = <<>>
  /\ chestOpen = FALSE
  /\ chestTools = <<>>
  /\ isPointerLocked = FALSE
  /\ isMobileDevice \in BOOLEAN
  /\ mobileGameStarted = FALSE
  /\ now = 0
  /\ winTimers = <<>>
  /\ log = [count |-> 0, last |-> [eventType |-> "none"], pending |-> 0, failed |-> 0]
  /\ hist = NoHist
  /\ scope \in [steps : 0..(MaxTimerSteps + MaxHoldSteps + MaxToolSteps), toolSpawns : BOOLEAN, timing : BOOLEAN]
  /\ hintedTargetId = None
  /\ hintEndTime = 0
  /\ revealQuadrant = "null"
  /\ revealEndTime = 0
  /\ shareData \in BOOLEAN
  /\ ray = NoRay

Init ==
  /\ InitialState
  /\ probe = NoProbe

(***************************************************************************)
(* Phase management.                                                       *)
(***************************************************************************)
\* startGame on level `levelIndex`: a new run replaces the run-scoped state
startGame(levelIndex) ==
  /\ runId < MaxRuns
  /\ phase' = "playing"
  /\ runId' = runId + 1
  /\ startTime' = now
  /\ timeElapsed' = 0
  /\ wrongSelections' = 0
  /\ targets' = selectTargets(levelIndex, difficulty)
  /\ decoys' = selectDecoys(levelIndex, difficulty)
  /\ foundCount' = 0
  /\ requiredCount' = DIFFICULTY_SETTINGS[difficulty].targetCount
  /\ inventory' = <<>>
  /\ toasts' = <<>>
  /\ hintedTargetId' = None
  /\ hintEndTime' = 0
  /\ revealQuadrant' = "null"
  /\ revealEndTime' = 0
  /\ chestOpen' = FALSE
  /\ chestTools' \in generateChestTools(difficulty)
  /\ mobileGameStarted' = FALSE
  /\ currentLevelIndex' = levelIndex
  /\ log' = logGameStart(log, difficulty, levelIndex)
  /\ hist' = NoHist
  /\ UNCHANGED <<difficulty, isPointerLocked, isMobileDevice, now, winTimers, scope,
                 probe, ray>>

\* NameEntryScreen.handleSubmit: setPhase('menu'); confirmNameEntry does the same
confirmNameEntry ==
  /\ phase = "name_entry"
  /\ phase' = "menu"
  /\ UNCHANGED <<difficulty, currentLevelIndex, runId, startTime, timeElapsed,
                 wrongSelections, targets, foundCount, requiredCount, decoys,
                 inventory, toasts, chestOpen, chestTools, isPointerLocked,
                 isMobileDevice, mobileGameStarted, now, winTimers, log, hist, scope,
                 hintVars, shareData, probe, ray>>

\* StartScreen "Welcome, <name>": setPhase('name_entry')
editName ==
  /\ phase = "menu"
  /\ phase' = "name_entry"
  /\ UNCHANGED <<difficulty, currentLevelIndex, runId, startTime, timeElapsed,
                 wrongSelections, targets, foundCount, requiredCount, decoys,
                 inventory, toasts, chestOpen, chestTools, isPointerLocked,
                 isMobileDevice, mobileGameStarted, now, winTimers, log, hist, scope,
                 hintVars, shareData, probe, ray>>

\* StartScreen.handleDifficultySelect
setDifficulty ==
  /\ phase = "menu"
  /\ \E d \in Difficulty : difficulty' = d
  /\ UNCHANGED <<phase, currentLevelIndex, runId, startTime, timeElapsed,
                 wrongSelections, targets, foundCount, requiredCount, decoys,
                 inventory, toasts, chestOpen, chestTools, isPointerLocked,
                 isMobileDevice, mobileGameStarted, now, winTimers, log, hist, scope,
                 hintVars, shareData, probe, ray>>

\* StartScreen.handlePlay
handlePlay ==
  /\ phase = "menu"
  /\ startGame(currentLevelIndex)
  /\ UNCHANGED shareData

\* SharedScoreModal.handlePlayNow: close the modal, startGame()
handlePlayNow ==
  /\ shareData
  /\ shareData' = FALSE
  /\ startGame(currentLevelIndex)

\* SharedScoreModal.handleMaybeLater: close the modal
handleMaybeLater ==
  /\ shareData
  /\ shareData' = FALSE
  /\ UNCHANGED <<phase, difficulty, currentLevelIndex, runId, startTime, timeElapsed,
                 wrongSelections, targets, foundCount, requiredCount, decoys,
                 inventory, toasts, chestOpen, chestTools, isPointerLocked,
                 isMobileDevice, mobileGameStarted, now, winTimers, log, hist, scope,
                 hintVars, probe, ray>>

\* PauseMenu / WinScreen "restart": same level, new run
restartLevel ==
  /\ phase \in {"paused", "won"}
  /\ startGame(currentLevelIndex)
  /\ UNCHANGED shareData

\* WinScreen "next level": the next level index, wrapping, then startGame
nextLevel ==
  /\ phase = "won"
  /\ startGame((currentLevelIndex + 1) % Len(LEVELS))
  /\ UNCHANGED shareData

\* PauseMenu / WinScreen "menu"
goToMenu ==
  /\ phase \in {"paused", "won"}
  /\ phase' = "menu"
  /\ currentLevelIndex' = 0
  /\ inventory' = <<>>
  /\ toasts' = <<>>
  /\ UNCHANGED <<difficulty, runId, startTime, timeElapsed, wrongSelections,
                 targets, foundCount, requiredCount, decoys, chestOpen, chestTools,
                 isPointerLocked, isMobileDevice, mobileGameStarted, now,
                 winTimers, log, hist, scope, hintVars, shareData, probe, ray>>

\* Escape key (GameRoot) or the mobile pause button (HUD), chest closed
pauseGame ==
  /\ ~chestOpen
  /\ IF phase = "playing"
     THEN /\ phase' = "paused"
          /\ hist' = IF scope.timing
                     THEN [hist EXCEPT !.pausedAt = now, !.resumedAt = None,
                                       !.elapsedAtPause = timeElapsed,
                                       !.pausedFor = None]
                     ELSE hist
     ELSE UNCHANGED <<phase, hist>>
  /\ UNCHANGED <<difficulty, currentLevelIndex, runId, startTime, timeElapsed,
                 wrongSelections, targets, foundCount, requiredCount, decoys,
                 inventory, toasts, chestOpen, chestTools, isPointerLocked,
                 isMobileDevice, mobileGameStarted, now, winTimers, log, scope,
                 hintVars, shareData, probe, ray>>

\* variant: a resumeGame that leaves startTime where it was
pauseDurationNone(t, start, elapsed) == 0

\* variant: a resumeGame that restarts the timer at the time of the call
pauseDurationWhole(t, start, elapsed) == t - start

\* (Date.now() - startTime) / 1000 - timeElapsed, in ms
pauseDuration(t, start, elapsed) == (t - start) - elapsed

\* Escape key (GameRoot) or PauseMenu "resume"
resumeGame ==
  /\ ~chestOpen
  /\ IF phase = "paused"
     THEN /\ phase' = "playing"
          /\ startTime' = startTime + pauseDuration(now, startTime, timeElapsed)
          /\ hist' = IF scope.timing
                     THEN [hist EXCEPT !.pausedAt = None, !.resumedAt = now,
                                       !.pausedFor = now - hist.pausedAt]
                     ELSE hist
     ELSE UNCHANGED <<phase, startTime, hist>>
  /\ UNCHANGED <<difficulty, currentLevelIndex, runId, timeElapsed,
                 wrongSelections, targets, foundCount, requiredCount, decoys,
                 inventory, toasts, chestOpen, chestTools, isPointerLocked,
                 isMobileDevice, mobileGameStarted, now, winTimers, log, scope,
                 hintVars, shareData, probe, ray>>

(***************************************************************************)
(* The timer.                                                              *)
(***************************************************************************)
\* variant: a player who counts as engaged at all times
isActiveAlways == TRUE

\* tick: const isActive
isActive == IF isMobileDevice THEN mobileGameStarted ELSE isPointerLocked

\* variant: a tick that also runs in phase won
tickPhaseOrWon == phase \in {"playing", "won"}

\* tick: state.phase !== 'playing' returns
tickPhase == phase = "playing"

\* variant: a tick that ends the hint and the reveal only after their end time
tickAtAfter(t) ==
  IF tickPhase /\ isActive
  THEN /\ hintedTargetId' = IF hintedTargetId # None /\ t > hintEndTime
                            THEN None ELSE hintedTargetId
       /\ revealQuadrant' = IF revealQuadrant # "null" /\ t > revealEndTime
                            THEN "null" ELSE revealQuadrant
       /\ timeElapsed' = t - startTime
  ELSE UNCHANGED <<timeElapsed, hintedTargetId, revealQuadrant>>

\* tick at Date.now() = t: the hint and the reveal end, timeElapsed is set
tickAt(t) ==
  IF tickPhase /\ isActive
  THEN /\ hintedTargetId' = IF hintedTargetId # None /\ t >= hintEndTime
                            THEN None ELSE hintedTargetId
       /\ revealQuadrant' = IF revealQuadrant # "null" /\ t >= revealEndTime
                            THEN "null" ELSE revealQuadrant
       /\ timeElapsed' = t - startTime
  ELSE UNCHANGED <<timeElapsed, hintedTargetId, revealQuadrant>>

\* GameScene useFrame: a frame within the current clock step
tick ==
  /\ tickAt(now)
  /\ UNCHANGED <<phase, difficulty, currentLevelIndex, runId, startTime,
                 wrongSelections, targets, foundCount, requiredCount, decoys,
                 inventory, toasts, chestOpen, chestTools, isPointerLocked,
                 isMobileDevice, mobileGameStarted, now, winTimers, log, hist, scope,
                 hintEndTime, revealEndTime, shareData, probe, ray>>

\* the clock advances one step and the frame of that instant runs, unless a
\* setTimeout callback whose delay has elapsed is waiting to run
frame ==
  /\ now + ClockStep <= scope.steps * ClockStep
  /\ ~(winTimers # <<>> /\ Head(winTimers).due <= now)
  /\ \A i \in 1..Len(toasts) : toasts[i].expires > now
  /\ now' = now + ClockStep
  /\ tickAt(now')
  /\ UNCHANGED <<phase, difficulty, currentLevelIndex, runId, startTime,
                 wrongSelections, targets, foundCount, requiredCount, decoys,
                 inventory, toasts, chestOpen, chestTools, isPointerLocked,
                 isMobileDevice, mobileGameStarted, winTimers, log, hist, scope,
                 hintEndTime, revealEndTime, shareData, probe, ray>>

\* hist after the player became engaged
engaged(h) ==
  IF scope.timing /\ h.engagedAt = None THEN [h EXCEPT !.engagedAt = now] ELSE h

\* pointerlockchange: the lock is taken by a click while playing with the chest
\* closed (desktop), and can be lost at any time
setPointerLocked ==
  /\ \/ /\ ~isPointerLocked
        /\ ~isMobileDevice
        /\ phase = "playing"
        /\ ~chestOpen
        /\ isPointerLocked' = TRUE
        /\ hist' = engaged(hist)
     \/ /\ isPointerLocked
        /\ isPointerLocked' = FALSE
        /\ UNCHANGED hist
  /\ UNCHANGED <<phase, difficulty, currentLevelIndex, runId, startTime, timeElapsed,
                 wrongSelections, targets, foundCount, requiredCount, decoys,
                 inventory, toasts, chestOpen, chestTools, isMobileDevice,
                 mobileGameStarted, now, winTimers, log, scope,
                 hintVars, shareData, probe, ray>>

\* the first touch of a run on a touch device
setMobileGameStarted ==
  /\ isMobileDevice
  /\ phase = "playing"
  /\ ~chestOpen
  /\ ~mobileGameStarted
  /\ mobileGameStarted' = TRUE
  /\ hist' = engaged(hist)
  /\ UNCHANGED <<phase, difficulty, currentLevelIndex, runId, startTime, timeElapsed,
                 wrongSelections, targets, foundCount, requiredCount, decoys,
                 inventory, toasts, chestOpen, chestTools, isPointerLocked,
                 isMobileDevice, now, winTimers, log, scope,
                 hintVars, shareData, probe, ray>>

(***************************************************************************)
(* Targets and decoys.                                                     *)
(***************************************************************************)
\* variant: a findTarget that takes every target as not yet found
targetFoundNever(targetIndex) == FALSE

\* variant: a selectDecoy that takes every decoy as not yet revealed
decoyRevealedNever(decoyIndex) == FALSE

\* state.targets[targetIndex].found
targetFound(targetIndex) == targets[targetIndex].found

\* state.decoys[decoyIndex].revealed
decoyRevealed(decoyIndex) == decoys[decoyIndex].revealed

\* the win check of findTarget
\* variant: the win is armed only when foundCount has passed requiredCount
winReachedLate(newFoundCount, required) == newFoundCount > required

winReached(newFoundCount, required) == newFoundCount >= required

\* the store's findTarget(targetId)
findTarget(targetId) ==
  LET targetIndex == indexOfId(targets, targetId) IN
  IF targetIndex = None \/ targetFound(targetIndex)
  THEN UNCHANGED <<targets, foundCount, toasts, winTimers, hist>>
  ELSE LET newFoundCount == foundCount + 1 IN
       /\ targets' = [targets EXCEPT ![targetIndex].found = TRUE]
       /\ foundCount' = newFoundCount
       /\ toasts' = addToast(toasts, <<"67 FOUND!", newFoundCount, requiredCount>>, "success")
       /\ winTimers' = IF winReached(newFoundCount, requiredCount)
                       THEN Append(winTimers, [due |-> now + WIN_DELAY_MS])
                       ELSE winTimers
       /\ hist' = IF foundCount < requiredCount /\ newFoundCount = requiredCount
                  THEN [hist EXCEPT !.completedAt = now]
                  ELSE hist

\* variant: the selected decoy leaves the list
withoutDecoy(ds, decoyIndex) ==
  SubSeq(ds, 1, decoyIndex - 1) \o SubSeq(ds, decoyIndex + 1, Len(ds))

\* newDecoys: a copy of the list with the decoy at decoyIndex revealed
newDecoys(ds, decoyIndex) == [ds EXCEPT ![decoyIndex].revealed = TRUE]

\* the store's selectDecoy(decoyId)
selectDecoy(decoyId) ==
  LET decoyIndex == indexOfId(decoys, decoyId) IN
  IF decoyIndex = None \/ decoyRevealed(decoyIndex)
  THEN UNCHANGED <<decoys, wrongSelections, toasts>>
  ELSE /\ decoys' = newDecoys(decoys, decoyIndex)
       /\ wrongSelections' = wrongSelections + 1
       /\ toasts' = addToast(toasts, <<"NOT A 67!", PENALTY_SECONDS>>, "warning")

\* the ids a completed hold on a target can carry: 0, an id that is not in the
\* current run; the id of a target already found; the id of the first target
\* not yet found (the targets are resolved in list order: the handlers treat
\* every list position alike)
heldTargetIds ==
  {0} \cup {targets[i].id : i \in {j \in 1..Len(targets) :
                \/ targets[j].found
                \/ \A k \in 1..(j - 1) : targets[k].found}}

\* InteractRaycaster useFrame: a hold on a target completes (phase playing,
\* chest closed)
confirmTarget ==
  /\ phase = "playing"
  /\ ~chestOpen
  /\ \E targetId \in heldTargetIds : findTarget(targetId)
  /\ UNCHANGED <<phase, difficulty, currentLevelIndex, runId, startTime, timeElapsed,
                 wrongSelections, requiredCount, decoys, inventory, chestOpen,
                 chestTools, isPointerLocked, isMobileDevice, mobileGameStarted,
                 now, log, scope, hintVars, shareData, probe, ray>>

\* InteractRaycaster useFrame: a hold on a decoy completes
confirmDecoy ==
  /\ phase = "playing"
  /\ ~chestOpen
  /\ \E decoyId \in 0..Len(decoys) : selectDecoy(decoyId)
  /\ UNCHANGED <<phase, difficulty, currentLevelIndex, runId, startTime, timeElapsed,
                 targets, foundCount, requiredCount, inventory, chestOpen,
                 chestTools, isPointerLocked, isMobileDevice, mobileGameStarted,
                 now, winTimers, log, hist, scope, hintVars, shareData, probe, ray>>

\* the setTimeout callback of findTarget: set({ phase: 'won' }); logGameEnd('won')
winTimeout ==
  /\ winTimers # <<>>
  /\ Head(winTimers).due <= now
  /\ winTimers' = Tail(winTimers)
  /\ phase' = "won"
  /\ log' = logGameEnd(log)
  /\ hist' = IF phase # "won" THEN [hist EXCEPT !.wins = @ + 1] ELSE hist
  /\ UNCHANGED <<difficulty, currentLevelIndex, runId, startTime, timeElapsed,
                 wrongSelections, targets, foundCount, requiredCount, decoys,
                 inventory, toasts, chestOpen, chestTools, isPointerLocked,
                 isMobileDevice, mobileGameStarted, now, scope,
                 hintVars, shareData, probe, ray>>

\* what the end of a request to /api/log leaves alone: the whole store
logFrame ==
  UNCHANGED <<phase, difficulty, currentLevelIndex, runId, startTime, timeElapsed,
              wrongSelections, targets, foundCount, requiredCount, decoys,
              inventory, toasts, chestOpen, chestTools, isPointerLocked,
              isMobileDevice, mobileGameStarted, now, winTimers, hist, scope,
              hintVars, shareData, probe, ray>>

\* a request to /api/log succeeds
logResolved ==
  /\ log.pending > 0
  /\ log' = resolved(log)
  /\ logFrame

\* a request to /api/log fails (network error): the .catch handler warns
logRejected ==
  /\ log.pending > 0
  /\ log' = rejected(log)
  /\ logFrame

(***************************************************************************)
(* Chest, inventory and toasts.                                            *)
(***************************************************************************)
\* variant: an inventory that is full only above its capacity
inventoryFullAbove(inv) == Len(inv) > INVENTORY_CAP

\* state.inventory.length >= 4
inventoryFull(inv) == Len(inv) >= INVENTORY_CAP

\* the store's addToolToInventory(tool)
addToolToInventory(tool) ==
  IF inventoryFull(inventory)
  THEN /\ toasts' = addToast(toasts, <<"Inventory full!">>, "warning")
       /\ UNCHANGED inventory
  ELSE /\ inventory' = Append(inventory, tool)
       /\ toasts' = addToast(toasts, <<"Got", tool.type>>, "success")

\* variant: the first item goes, whatever its id
withoutFirst(items, id) == Tail(items)

\* Array.prototype.filter((t) => t.id !== id)
withoutId(items, id) ==
  LET keep == {i \in 1..Len(items) : items[i].id # id}
      F[k \in 0..Len(items)] ==
        IF k = 0 THEN <<>>
        ELSE IF k \in keep THEN Append(F[k - 1], items[k]) ELSE F[k - 1]
  IN  F[Len(items)]

\* the store's takeToolFromChest(toolId)
takeToolFromChest(toolId) ==
  LET toolIndex == indexOfId(chestTools, toolId) IN
  IF toolIndex = None
  THEN UNCHANGED <<chestTools, inventory, toasts>>
  ELSE /\ chestTools' = withoutId(chestTools, toolId)
       /\ addToolToInventory(chestTools[toolIndex])

\* E key (InteractRaycaster.handleKeyDown) or the HUD button, near the chest
openChest ==
  /\ phase = "playing"
  /\ ~chestOpen
  /\ isActive
  /\ chestOpen' = TRUE
  /\ UNCHANGED <<phase, difficulty, currentLevelIndex, runId, startTime, timeElapsed,
                 wrongSelections, targets, foundCount, requiredCount, decoys,
                 inventory, toasts, chestTools, isPointerLocked, isMobileDevice,
                 mobileGameStarted, now, winTimers, log, hist, scope,
                 hintVars, shareData, probe, ray>>

\* Escape key (GameRoot) or ChestUI "close"
closeChest ==
  /\ chestOpen
  /\ chestOpen' = FALSE
  /\ UNCHANGED <<phase, difficulty, currentLevelIndex, runId, startTime, timeElapsed,
                 wrongSelections, targets, foundCount, requiredCount, decoys,
                 inventory, toasts, chestTools, isPointerLocked, isMobileDevice,
                 mobileGameStarted, now, winTimers, log, hist, scope,
                 hintVars, shareData, probe, ray>>

\* ChestUI.handleTakeTool: take the tool, close the chest with its last tool
handleTakeTool ==
  /\ chestOpen
  /\ \E i \in 1..Len(chestTools) : takeToolFromChest(chestTools[i].id)
  /\ chestOpen' = IF Len(chestTools) = 1 THEN FALSE ELSE chestOpen
  /\ UNCHANGED <<phase, difficulty, currentLevelIndex, runId, startTime, timeElapsed,
                 wrongSelections, targets, foundCount, requiredCount, decoys,
                 isPointerLocked, isMobileDevice, mobileGameStarted, now,
                 winTimers, log, hist, scope, hintVars, shareData, probe, ray>>

(***************************************************************************)
(* Tools: hint and reveal.                                                 *)
(***************************************************************************)
Quadrant == {"north", "south", "east", "west", "center"}

\* the duration of a hint and of a reveal, ms
TOOL_MS == 5000

Abs(x) == IF x < 0 THEN -x ELSE x

\* variant: an offset of exactly the threshold already leaves the center
quadrantOfFromThreshold(x, z) ==
  IF Abs(x) >= 20 \/ Abs(z) >= 20
  THEN IF z <= -20 THEN "north"
       ELSE IF z >= 20 THEN "south"
       ELSE IF x >= 20 THEN "east"
       ELSE "west"
  ELSE "center"

\* useTool: the quadrant of position (x, z), in tenths
quadrantOf(x, z) ==
  IF Abs(x) > 20 \/ Abs(z) > 20
  THEN IF z < -20 THEN "north"
       ELSE IF z > 20 THEN "south"
       ELSE IF x > 20 THEN "east"
       ELSE IF x < -20 THEN "west"
       ELSE "center"
  ELSE "center"

\* state.targets.filter((t) => !t.found): the indices of the unfound targets
unfound == {i \in 1..Len(targets) : ~targets[i].found}

\* variant: the last element of the filtered list
lastOf(indices) == CHOOSE i \in indices : \A j \in indices : i >= j

\* unfound[0]: the first element of the filtered list
firstOf(indices) == CHOOSE i \in indices : \A j \in indices : i <= j

\* the store's useTool(toolId).  The position of unfound[0] is one of the
\* positions of the level's candidateTargets.
useTool(toolId) ==
  LET toolIndex == indexOfId(inventory, toolId) IN
  IF toolIndex = None
  THEN UNCHANGED <<inventory, toasts, hintVars>>
  ELSE LET tool == inventory[toolIndex]
           first == firstOf(unfound)
       IN
       /\ inventory' = withoutId(inventory, toolId)
       /\ IF tool.type = "hint"
          THEN /\ IF unfound # {}
                  THEN /\ hintedTargetId' = targets[first].id
                       /\ hintEndTime' = now + TOOL_MS
                       /\ toasts' = addToast(toasts, <<"Hint activated!">>, "info")
                  ELSE /\ toasts' = addToast(toasts, <<"No targets left!">>, "warning")
                       /\ UNCHANGED <<hintedTargetId, hintEndTime>>
               /\ UNCHANGED <<revealQuadrant, revealEndTime>>
          ELSE /\ IF unfound # {}
                  THEN \E pos \in candidateTargetPositions[currentLevelIndex + 1] :
                         LET quadrant == quadrantOf(pos[1], pos[2]) IN
                         /\ revealQuadrant' = quadrant
                         /\ revealEndTime' = now + TOOL_MS
                         /\ toasts' = addToast(toasts,
                                         <<Cardinality(unfound), "remaining", quadrant>>,
                                         "info")
                  ELSE UNCHANGED <<revealQuadrant, revealEndTime, toasts>>
               /\ UNCHANGED <<hintedTargetId, hintEndTime>>

\* the ids a HUD handler can pass to useTool: the id of a tool in the
\* inventory, or 0, an id that is not (any longer) in the inventory
usedToolIds == {0} \cup {inventory[i].id : i \in 1..Len(inventory)}

\* HUD: key 1-4 or a click on an inventory slot (HUD shown while playing or
\* paused, keys ignored while the chest is open)
handleToolKey ==
  /\ phase \in {"playing", "paused"}
  /\ ~chestOpen
  /\ \E toolId \in usedToolIds : useTool(toolId)
  /\ UNCHANGED <<phase, difficulty, currentLevelIndex, runId, startTime, timeElapsed,
                 wrongSelections, targets, foundCount, requiredCount, decoys,
                 chestOpen, chestTools, isPointerLocked, isMobileDevice,
                 mobileGameStarted, now, winTimers, log, hist, scope,
                 shareData, probe, ray>>

\* tools handed to addToolToInventory by a direct call of the store
ExternalTools == {[id |-> 3, type |-> "hint"], [id |-> 4, type |-> "reveal"]}

\* a direct call of the store's addToolToInventory
addTool ==
  /\ Len(toasts) < MaxToasts
  /\ \E tool \in ExternalTools : addToolToInventory(tool)
  /\ UNCHANGED <<phase, difficulty, currentLevelIndex, runId, startTime, timeElapsed,
                 wrongSelections, targets, foundCount, requiredCount, decoys,
                 chestOpen, chestTools, isPointerLocked, isMobileDevice,
                 mobileGameStarted, now, winTimers, log, hist, scope,
                 hintVars, shareData, probe, ray>>

\* the clock advances by half the duration of a tool and the frame of that
\* instant runs (the frames in between change nothing that this one does
\* not), unless a setTimeout callback whose delay has elapsed is waiting
longFrame ==
  /\ now + TOOL_MS \div 2 <= scope.steps * ClockStep
  /\ ~(winTimers # <<>> /\ Head(winTimers).due <= now)
  /\ \A i \in 1..Len(toasts) : toasts[i].expires > now
  /\ now' = now + TOOL_MS \div 2
  /\ tickAt(now')
  /\ UNCHANGED <<phase, difficulty, currentLevelIndex, runId, startTime,
                 wrongSelections, targets, foundCount, requiredCount, decoys,
                 inventory, toasts, chestOpen, chestTools, isPointerLocked,
                 isMobileDevice, mobileGameStarted, winTimers, log, hist, scope,
                 hintEndTime, revealEndTime, shareData, probe, ray>>

\* the setTimeout callback of addToast: removeToast(id)
toastTimeout ==
  /\ \E i \in 1..Len(toasts) :
        /\ toasts[i].expires <= now
        /\ toasts' = SubSeq(toasts, 1, i - 1) \o SubSeq(toasts, i + 1, Len(toasts))
  /\ UNCHANGED <<phase, difficulty, currentLevelIndex, runId, startTime, timeElapsed,
                 wrongSelections, targets, foundCount, requiredCount, decoys,
                 inventory, chestOpen, chestTools, isPointerLocked, isMobileDevice,
                 mobileGameStarted, now, winTimers, log, hist, scope,
                 hintVars, shareData, probe, ray>>

(***************************************************************************)
(* InteractRaycaster: hover resolution and hold-to-confirm.                *)
(***************************************************************************)
\* variant: a hover resolution that also takes found targets and revealed
\* decoys
foundHoverAmongAll(ts, ds, camera, holdSeconds) ==
  LET nt == Len(camera.targets)
      n  == nt + Len(camera.decoys)
      F[k \in 0..n] ==
        IF k = 0 THEN [item |-> NoRay.hoveredItem, bestDot |-> TARGET_DOT_THRESHOLD]
        ELSE LET isTarget == k <= nt
                 i     == IF isTarget THEN k ELSE k - nt
                 sight == IF isTarget THEN camera.targets[i] ELSE camera.decoys[i]
                 here  == i <= Len(IF isTarget THEN ts ELSE ds)
             IN  IF /\ here
                    /\ sight.inRange
                    /\ isTarget => sight.inZone
                    /\ sight.dot > F[k - 1].bestDot
                 THEN [item |-> [type |-> IF isTarget THEN "target" ELSE "decoy",
                                 id |-> IF isTarget THEN ts[i].id ELSE ds[i].id,
                                 holdSecondsRequired |-> holdSeconds],
                       bestDot |-> sight.dot]
                 ELSE F[k - 1]
  IN  F[n].item

\* useFrame: let foundHover, bestDot = TARGET_DOT_THRESHOLD, the loop over the
\* targets and then the loop over the decoys (holdSeconds is the
\* holdSecondsRequired of the items of the run)
foundHover(ts, ds, camera, holdSeconds) ==
  LET nt == Len(camera.targets)
      n  == nt + Len(camera.decoys)
      F[k \in 0..n] ==
        IF k = 0 THEN [item |-> NoRay.hoveredItem, bestDot |-> TARGET_DOT_THRESHOLD]
        ELSE LET isTarget == k <= nt
                 i     == IF isTarget THEN k ELSE k - nt
                 sight == IF isTarget THEN camera.targets[i] ELSE camera.decoys[i]
                 here  == i <= Len(IF isTarget THEN ts ELSE ds)
             IN  IF /\ here
                    /\ ~(IF isTarget THEN ts[i].found ELSE ds[i].revealed)
                    /\ sight.inRange
                    /\ isTarget => sight.inZone
                    /\ sight.dot > F[k - 1].bestDot
                 THEN [item |-> [type |-> IF isTarget THEN "target" ELSE "decoy",
                                 id |-> IF isTarget THEN ts[i].id ELSE ds[i].id,
                                 holdSecondsRequired |-> holdSeconds],
                       bestDot |-> sight.dot]
                 ELSE F[k - 1]
  IN  F[n].item

\* PlayerController.handleTouchLook and the joystick: the engaged player
\* turns or walks; the camera faces a wall, the first target or the decoy,
\* with the other items near
lookAround ==
  /\ phase = "playing"
  /\ ~chestOpen
  /\ isActive
  /\ \E c \in Cameras :
        /\ c # ray.camera
        /\ \/ c = NoRay.camera
           \/ /\ c.targets[1] = [inRange |-> TRUE, inZone |-> TRUE, dot |-> 950]
              /\ c.targets[2] = [inRange |-> TRUE, inZone |-> TRUE, dot |-> 900]
              /\ c.decoys[1] = [inRange |-> TRUE, inZone |-> TRUE, dot |-> 900]
           \/ /\ c.targets[1] = [inRange |-> TRUE, inZone |-> TRUE, dot |-> 900]
              /\ c.targets[2] = [inRange |-> TRUE, inZone |-> TRUE, dot |-> 850]
              /\ c.decoys[1] = [inRange |-> TRUE, inZone |-> FALSE, dot |-> 950]
        /\ ray' = [ray EXCEPT !.camera = c]
  /\ UNCHANGED <<sessionVars, probe>>

\* variant: a frame that goes on resolving items while the game is not
\* playing or the chest is open
frameRuns == FALSE

\* useFrame: phase !== 'playing' returns, chestOpen returns
frameStops == phase # "playing" \/ chestOpen

\* useFrame of InteractRaycaster. The state (hoveredItem, isHolding) is read
\* as rendered, the ref holdStartTime as last written
useFrame ==
  LET hovered == ray.hoveredItem
      found   == foundHover(targets, decoys, ray.camera,
                            DIFFICULTY_SETTINGS[difficulty].holdSeconds)
      changed == <<found.type, found.id>> # <<hovered.type, hovered.id>>
      start   == IF changed THEN None ELSE ray.holdStartTime
      holding == ray.isHolding /\ hovered # NoRay.hoveredItem /\ start # None
      elapsed == now - start
      done    == holding /\ elapsed >= hovered.holdSecondsRequired * 1000
  IN
  /\ phase \notin {"name_entry", "menu"}
  /\ IF frameStops
     THEN /\ ray' = [ray EXCEPT !.hoveredItem = NoRay.hoveredItem]
          /\ UNCHANGED <<targets, foundCount, toasts, winTimers, hist, decoys,
                         wrongSelections>>
     ELSE /\ ray' = [ray EXCEPT
                       !.hoveredItem = IF done THEN NoRay.hoveredItem
                                       ELSE IF changed THEN found ELSE @,
                       !.isHolding = IF changed \/ done THEN FALSE ELSE @,
                       !.holdStartTime = IF done THEN None ELSE start,
                       !.holdProgress =
                          IF changed \/ done THEN 0
                          ELSE IF holding
                               THEN Min(1000, elapsed \div hovered.holdSecondsRequired)
                               ELSE @,
                       !.atDown = IF changed \/ done THEN NoRay.atDown ELSE @]
          /\ IF done /\ hovered.type = "target"
             THEN findTarget(hovered.id) /\ UNCHANGED <<decoys, wrongSelections>>
             ELSE IF done
             THEN selectDecoy(hovered.id)
                  /\ UNCHANGED <<targets, foundCount, winTimers, hist>>
             ELSE UNCHANGED <<targets, foundCount, toasts, winTimers, hist, decoys,
                              wrongSelections>>
  /\ UNCHANGED <<phase, difficulty, currentLevelIndex, runId, startTime, timeElapsed,
                 requiredCount, inventory, chestOpen, chestTools, isPointerLocked,
                 isMobileDevice, mobileGameStarted, now, log, scope, hintVars,
                 shareData, probe>>

\* handleMouseDown: mousedown, or a touch outside the controls
handleMouseDown ==
  /\ phase = "playing"
  /\ isActive
  /\ ~chestOpen
  /\ ray' = [ray EXCEPT
               !.isHolding = TRUE,
               !.holdStartTime = now,
               !.atDown = [foundCount |-> foundCount,
                           wrongSelections |-> wrongSelections,
                           targets |-> targets, decoys |-> decoys],
               !.released = None]
  /\ UNCHANGED <<sessionVars, probe>>

\* variant: a release that keeps the progress of the hold
handleMouseUpKeepingProgress ==
  /\ phase \notin {"name_entry", "menu"}
  /\ ray' = [ray EXCEPT !.isHolding = FALSE, !.holdStartTime = None,
                        !.atDown = NoRay.atDown,
                        !.released = IF ray.isHolding /\ ray.holdProgress > 0
                                     THEN 1 ELSE 0]
  /\ UNCHANGED <<sessionVars, probe>>

\* handleMouseUp: mouseup or touchend
handleMouseUp ==
  /\ phase \notin {"name_entry", "menu"}
  /\ ray' = [ray EXCEPT !.isHolding = FALSE, !.holdStartTime = None,
                        !.holdProgress = 0,
                        !.atDown = NoRay.atDown,
                        !.released = IF ray.isHolding /\ ray.holdProgress > 0
                                     THEN 1 ELSE 0]
  /\ UNCHANGED <<sessionVars, probe>>

(***************************************************************************)
(* Specifications.                                                         *)
(***************************************************************************)
\* Spec: the session of a desktop player at the initial difficulty, in runs
\* whose chest spawned no tool, over MaxSteps clock steps
InitSession ==
  /\ Init
  /\ ~isMobileDevice
  /\ ~shareData
  /\ scope = [steps |-> MaxSteps, toolSpawns |-> FALSE, timing |-> FALSE]

Next ==
  \/ confirmNameEntry
  \/ editName
  \/ handlePlay
  \/ restartLevel
  \/ nextLevel
  \/ goToMenu
  \/ pauseGame
  \/ resumeGame
  \/ tick
  \/ frame
  \/ setPointerLocked
  \/ confirmTarget
  \/ confirmDecoy
  \/ winTimeout
  \/ handleToolKey

Spec == InitSession /\ [][Next]_vars

\* SpecWin: the desktop session in which targets and decoys are resolved, with
\* time passing and due timers run: the browser's event loop runs the callback
\* of every setTimeout whose delay has elapsed.
NextWin ==
  \/ confirmNameEntry
  \/ handlePlay
  \/ restartLevel
  \/ goToMenu
  \/ pauseGame
  \/ resumeGame
  \/ frame
  \/ confirmTarget
  \/ confirmDecoy
  \/ winTimeout

SpecWin == InitSession /\ [][NextWin]_vars /\ WF_vars(frame) /\ WF_vars(winTimeout)

\* SpecTimer: the timer of a desktop or touch player who resolves no item,
\* over MaxTimerSteps clock steps
InitTimer ==
  /\ Init
  /\ ~shareData
  /\ scope = [steps |-> MaxTimerSteps, toolSpawns |-> FALSE, timing |-> TRUE]

NextTimer ==
  \/ confirmNameEntry
  \/ handlePlay
  \/ restartLevel
  \/ goToMenu
  \/ pauseGame
  \/ resumeGame
  \/ tick
  \/ frame
  \/ setPointerLocked
  \/ setMobileGameStarted

SpecTimer == InitTimer /\ [][NextTimer]_vars

\* SpecInventory: chest and inventory of a desktop or touch player at any
\* difficulty, at one instant of the clock
InitInventory ==
  /\ Init
  /\ ~shareData
  /\ scope = [steps |-> 0, toolSpawns |-> TRUE, timing |-> FALSE]

NextInventory ==
  \/ confirmNameEntry
  \/ setDifficulty
  \/ handlePlay
  \/ restartLevel
  \/ goToMenu
  \/ pauseGame
  \/ resumeGame
  \/ setPointerLocked
  \/ setMobileGameStarted
  \/ openChest
  \/ closeChest
  \/ handleTakeTool
  \/ addTool

SpecInventory == InitInventory /\ [][NextInventory]_vars


\* SpecPhase: the phases of a desktop session at the initial difficulty,
\* loaded with or without a shared score in the URL, over MaxSteps clock steps
InitPhase ==
  /\ Init
  /\ ~isMobileDevice
  /\ scope = [steps |-> MaxSteps, toolSpawns |-> FALSE, timing |-> FALSE]

NextPhase ==
  \/ confirmNameEntry
  \/ editName
  \/ handlePlay
  \/ handlePlayNow
  \/ handleMaybeLater
  \/ restartLevel
  \/ nextLevel
  \/ goToMenu
  \/ pauseGame
  \/ resumeGame
  \/ frame
  \/ confirmTarget
  \/ winTimeout

SpecPhase == InitPhase /\ [][NextPhase]_vars

\* SpecTools: targets, chest and tools of a desktop session at the initial
\* difficulty, at one instant of the clock
InitTools ==
  /\ Init
  /\ ~isMobileDevice
  /\ ~shareData
  /\ scope = [steps |-> 0, toolSpawns |-> TRUE, timing |-> FALSE]

NextTools ==
  \/ confirmNameEntry
  \/ handlePlay
  \/ restartLevel
  \/ pauseGame
  \/ resumeGame
  \/ setPointerLocked
  \/ openChest
  \/ closeChest
  \/ handleTakeTool
  \/ handleToolKey
  \/ confirmTarget

SpecTools == InitTools /\ [][NextTools]_vars

\* SpecRay: a touch player at the initial difficulty who looks around and
\* holds the action on what is hovered, over MaxHoldSteps clock steps
InitRay ==
  /\ Init
  /\ isMobileDevice
  /\ ~shareData
  /\ scope = [steps |-> MaxHoldSteps, toolSpawns |-> FALSE, timing |-> FALSE]

NextRay ==
  \/ confirmNameEntry
  \/ handlePlay
  \/ setMobileGameStarted
  \/ pauseGame
  \/ resumeGame
  \/ openChest
  \/ closeChest
  \/ frame
  \/ lookAround
  \/ useFrame
  \/ handleMouseDown
  \/ handleMouseUp

SpecRay == InitRay /\ [][NextRay]_vars

\* SpecExpiry: the runs of a touch player who takes the tools of the chest
\* and uses them, with pauses, over MaxToolSteps clock steps taken
\* TOOL_MS / 2 at a time
InitExpiry ==
  /\ Init
  /\ isMobileDevice
  /\ ~shareData
  /\ scope = [steps |-> MaxToolSteps, toolSpawns |-> TRUE, timing |-> FALSE]

NextExpiry ==
  \/ confirmNameEntry
  \/ handlePlay
  \/ restartLevel
  \/ setMobileGameStarted
  \/ pauseGame
  \/ resumeGame
  \/ tick
  \/ longFrame
  \/ toastTimeout
  \/ openChest
  \/ handleTakeTool
  \/ handleToolKey

SpecExpiry == InitExpiry /\ [][NextExpiry]_vars

(***************************************************************************)
(* The functions applied on their own: the session stays as created and    *)
(* `probe` holds the arguments and the results.                            *)
(***************************************************************************)

InitProbe(inputs) ==
  /\ InitialState
  /\ ~isMobileDevice
  /\ ~shareData
  /\ scope = [steps |-> 0, toolSpawns |-> FALSE, timing |-> FALSE]
  /\ probe \in inputs

\* SpecScore: one run of a desktop session up to the win screen, which reads
\* the final score
InitScore ==
  /\ Init
  /\ ~isMobileDevice
  /\ ~shareData
  /\ scope = [steps |-> MaxTimerSteps, toolSpawns |-> FALSE, timing |-> FALSE]

\* WinScreen: const finalScore = useFinalScore(), i.e. s.getFinalScore()
useFinalScore ==
  /\ phase = "won"
  /\ probe' = [kind |-> "score", score |-> getFinalScore(timeElapsed, wrongSelections)]
  /\ UNCHANGED <<sessionVars, ray>>

NextScore ==
  \/ confirmNameEntry
  \/ handlePlay
  \/ setPointerLocked
  \/ frame
  \/ confirmTarget
  \/ confirmDecoy
  \/ winTimeout
  \/ useFinalScore

SpecScore == InitScore /\ [][NextScore]_vars

\* SpecLog: the runs of a desktop session and the fate of their requests to
\* /api/log: each one succeeds, fails, or stays in flight for ever
NextLog ==
  \/ confirmNameEntry
  \/ handlePlay
  \/ restartLevel
  \/ nextLevel
  \/ pauseGame
  \/ setPointerLocked
  \/ frame
  \/ confirmTarget
  \/ winTimeout
  \/ logResolved
  \/ logRejected

SpecLog == InitSession /\ [][NextLog]_vars

\* SpecHint: one run of a session on a touch device with its chest and its
\* tools, over MaxSteps clock steps
InitHint ==
  /\ Init
  /\ isMobileDevice
  /\ ~shareData
  /\ scope = [steps |-> MaxSteps, toolSpawns |-> TRUE, timing |-> FALSE]

NextHint ==
  \/ confirmNameEntry
  \/ handlePlay
  \/ setMobileGameStarted
  \/ frame
  \/ openChest
  \/ handleTakeTool
  \/ handleToolKey
  \/ confirmTarget
  \/ winTimeout

SpecHint == InitHint /\ [][NextHint]_vars

\* SpecPools: startGame's generation for a level given on its own (README,
\* "Adding New Levels"): any number of candidate targets and decoys, with
\* holdSecondsRequired, found and revealed as the level's author wrote them
poolTarget(c) ==
  [id |-> <<"candidate", c>>, candidate |-> c,
   type |-> IF c % 2 = 1 THEN "digital_clock" ELSE "book_page",
   found |-> c % 2 = 0, holdSecondsRequired |-> 3 + (c % 3)]

poolDecoy(c) ==
  [id |-> <<"candidate", c>>, candidate |-> c,
   type |-> IF c % 2 = 1 THEN "wrong_clock" ELSE "wrong_page",
   revealed |-> c % 2 = 0, holdSecondsRequired |-> 3 + (c % 3)]

streams(candidates) == [1..(IF candidates = 0 THEN 0 ELSE candidates - 1) -> RngValues]

InitPools ==
  InitProbe(
    UNION {[kind : {"pools"}, candidateTargets : {n}, difficulty : Difficulty,
            stream : streams(n), started : {FALSE}, targets : {<<>>}, decoys : {<<>>},
            requiredCount : {0}] : n \in 0..MaxTargetPool})

\* startGame: targets, decoys and requiredCount of the new run; the decoy
\* candidates of the level and the generator of the decoys are chosen here
callStartGame ==
  /\ probe.kind = "pools"
  /\ ~probe.started
  /\ \E n \in 0..MaxDecoyCandidates :
       \E decoyStream \in streams(n) :
         probe' = [probe EXCEPT
                     !.started = TRUE,
                     !.targets = targetsFrom([c \in 1..probe.candidateTargets |-> poolTarget(c)],
                                             probe.difficulty, probe.stream),
                     !.decoys = decoysFrom([c \in 1..n |-> poolDecoy(c)],
                                           probe.difficulty, decoyStream),
                     !.requiredCount = DIFFICULTY_SETTINGS[probe.difficulty].targetCount]
  /\ UNCHANGED <<sessionVars, ray>>

NextPools == callStartGame

SpecPools == InitPools /\ [][NextPools]_vars

\* SpecShare: encodeShareData and decodeShareData applied on their own.
ShareData(name, score, level, diff) ==
  [t |-> "object",
   keys |-> <<ShareKeys.playerName, ShareKeys.score, ShareKeys.level, ShareKeys.difficulty>>,
   vals |-> <<[t |-> "string", s |-> name], score,
              [t |-> "string", s |-> level], [t |-> "string", s |-> diff]>>]

\* the data shared: player names (Guest, a"b, C:\, Zoe with an acute accent,
\* ~~~, a b%), the level names of levelConfigs.ts (Cozy Bedroom, Living Room,
\* The Classroom), the difficulties (easy, normal, hard), and scores that are
\* integers, NaN or an infinity
ShareDatas ==
  LET names == {<<71, 117, 101, 115, 116>>,
            <<97, 34, 98>>,
            <<67, 58, 92>>,
            <<90, 111, 233>>,
            <<126, 126, 126>>,
            <<97, 32, 98, 37>>}
      levels == {<<67, 111, 122, 121, 32, 66, 101, 100, 114, 111, 111, 109>>,
                 <<76, 105, 118, 105, 110, 103, 32, 82, 111, 111, 109>>,
                 <<84, 104, 101, 32, 67, 108, 97, 115, 115, 114, 111, 111, 109>>}
      diffs == {<<101, 97, 115, 121>>, <<110, 111, 114, 109, 97, 108>>, <<104, 97, 114, 100>>}
      scores == {[t |-> "number", finite |-> TRUE, n |-> n] : n \in {-MaxScore, 0, 67, MaxScore}}
                  \cup {[t |-> "number", finite |-> FALSE, n |-> n] : n \in {-1, 0, 1}}
  IN  {ShareData(name, score, level, diff) :
         name \in names, score \in scores, level \in levels, diff \in diffs}

\* Guest, 67, Cozy Bedroom, easy
SampleShareData ==
  ShareData(<<71, 117, 101, 115, 116>>, [t |-> "number", finite |-> TRUE, n |-> 67],
            <<67, 111, 122, 121, 32, 66, 101, 100, 114, 111, 111, 109>>, <<101, 97, 115, 121>>)

\* the encoded texts decodeShareData is given: encodings of other JSON
\* documents and of objects with a field missing, of another type or added,
\* texts that are no encoding of a JSON document (%, %E9, %C3%28, {, the
\* empty text, nul, {"score":67 , "Guest , 067, {"score":67}}) as they are and
\* in base64, and encodings damaged in one place (a character dropped, or
\* replaced by A, by a space or by *)
EncodedTexts ==
  LET otherKey == <<100, 97, 116, 97>>
      fields == {ShareKeys[k] : k \in DOMAIN ShareKeys}
      without(data, key) ==
        LET kept == SelectSeq([k \in 1..Len(data.keys) |-> k],
                              LAMBDA k : data.keys[k] # key)
        IN  [t |-> "object", keys |-> [k \in 1..Len(kept) |-> data.keys[kept[k]]],
             vals |-> [k \in 1..Len(kept) |-> data.vals[kept[k]]]]
      with(data, key, value) ==
        IF \E k \in 1..Len(data.keys) : data.keys[k] = key
        THEN [data EXCEPT !.vals = [k \in 1..Len(data.keys) |->
                                      IF data.keys[k] = key THEN value ELSE data.vals[k]]]
        ELSE [data EXCEPT !.keys = Append(@, key), !.vals = Append(@, value)]
      empty == [t |-> "object", keys |-> <<>>, vals |-> <<>>]
      others ==
        {Null, [t |-> "number", finite |-> TRUE, n |-> 67],
         [t |-> "string", s |-> <<71, 117, 101, 115, 116>>], [t |-> "boolean", b |-> TRUE], empty,
         [t |-> "object", keys |-> <<otherKey>>, vals |-> <<SampleShareData>>]}
          \cup {without(SampleShareData, key) : key \in fields}
          \cup {with(SampleShareData, key, value) :
                  key \in fields \cup {otherKey},
                  value \in {Null, [t |-> "number", finite |-> TRUE, n |-> 0],
                             [t |-> "string", s |-> <<>>],
                             [t |-> "boolean", b |-> FALSE], empty}}
      broken ==
        {<<37>>, <<37, 69, 57>>, <<37, 67, 51, 37, 50, 56>>, <<123>>, <<>>, <<110, 117, 108>>,
         <<123, 34, 115, 99, 111, 114, 101, 34, 58, 54, 55>>,
         <<34, 71, 117, 101, 115, 116>>, <<48, 54, 55>>,
         <<123, 34, 115, 99, 111, 114, 101, 34, 58, 54, 55, 125, 125>>}
      whole == encodeShareData(SampleShareData).out
      positions == 1..(IF Len(whole) < MaxDamage THEN Len(whole) ELSE MaxDamage)
      dropped(i) == SubSeq(whole, 1, i - 1) \o SubSeq(whole, i + 1, Len(whole))
  IN  {encodeShareData(v).out : v \in others \cup {SampleShareData}}
        \cup {btoa(text).out : text \in broken}
        \cup broken
        \cup {btoa(stringify(SampleShareData)).out}
        \cup {dropped(i) : i \in positions}
        \cup {dropped(Len(whole) + 1 - i) : i \in positions}
        \cup {[whole EXCEPT ![i] = ch] : i \in positions, ch \in {65, 32, 42}}

ShareInputs ==
  [kind : {"share"}, stage : {"data"}, data : ShareDatas,
   encoded : {Thrown}, result : {Null}]
    \cup [kind : {"decode"}, stage : {"encoded"}, data : {Null},
          encoded : {[ok |-> TRUE, out |-> text] : text \in EncodedTexts}, result : {Null}]

InitShare == InitProbe(ShareInputs)

\* encodeShareData(data)
callEncodeShareData ==
  /\ probe.kind = "share"
  /\ probe.stage = "data"
  /\ probe' = [probe EXCEPT !.encoded = encodeShareData(probe.data),
                            !.stage = IF encodeShareData(probe.data).ok
                                      THEN "encoded" ELSE "thrown"]
  /\ UNCHANGED <<sessionVars, ray>>

\* decodeShareData(encoded)
callDecodeShareData ==
  /\ probe.kind \in {"share", "decode"}
  /\ probe.stage = "encoded"
  /\ probe' = [probe EXCEPT !.result = decodeShareData(probe.encoded.out),
                            !.stage = "decoded"]
  /\ UNCHANGED <<sessionVars, ray>>

NextShare ==
  \/ callEncodeShareData
  \/ callDecodeShareData

SpecShare == InitShare /\ [][NextShare]_vars


\* SpecQuadrant: the quadrant computation of the reveal tool for the position
\* of unfound[0]: every half unit up to MaxOffset on both axes, and the
\* positions of the levels' candidateTargets
Offsets == {5 * k : k \in (-2 * MaxOffset)..(2 * MaxOffset)}

InitQuadrant ==
  InitProbe(
    [kind : {"quadrant"},
     position : (Offsets \X Offsets) \cup
                UNION {candidateTargetPositions[l] : l \in 1..Len(LEVELS)},
     done : {FALSE}, quadrant : {"null"}])

callQuadrant ==
  /\ probe.kind = "quadrant"
  /\ ~probe.done
  /\ probe' = [probe EXCEPT !.done = TRUE,
                            !.quadrant = quadrantOf(probe.position[1], probe.position[2])]
  /\ UNCHANGED <<sessionVars, ray>>

NextQuadrant == callQuadrant

SpecQuadrant == InitQuadrant /\ [][NextQuadrant]_vars

\* SpecSample: sample(array, n) of one generator, for arrays that may hold
\* equal elements
SampleValues == {"a", "b"}

InitSample ==
  InitProbe(
    UNION {[kind : {"sample"}, array : [1..len -> SampleValues],
            n : 0..(MaxArrayLen + 1), stream : [1..(len - 1) -> RngValues],
            done : {FALSE}, result : {<<>>}] : len \in 0..MaxArrayLen})

callSample ==
  /\ probe.kind = "sample"
  /\ ~probe.done
  /\ probe' = [probe EXCEPT !.done = TRUE,
                            !.result = sample(probe.array, probe.n, probe.stream)]
  /\ UNCHANGED <<sessionVars, ray>>

NextSample == callSample

SpecSample == InitSample /\ [][NextSample]_vars

\* SpecGeneration: one of the three generating functions is called twice for
\* one level, one run id (hence one stream) and one difficulty
drawsNeeded(kind, levelIndex) ==
  CASE kind = "targets" -> LEVELS[levelIndex + 1].candidateTargets - 1
    [] kind = "decoys"  -> candidateDecoys(levelIndex) - 1
    [] kind = "tools"   -> 3

InitGeneration ==
  InitProbe(
    UNION {[kind : {k}, levelIndex : {l}, difficulty : Difficulty,
            stream : [1..drawsNeeded(k, l) -> RngValues],
            calls : {0}, first : {<<>>}, second : {<<>>}] :
             k \in {"targets", "decoys", "tools"}, l \in 0..(Len(LEVELS) - 1)})

\* the result of one more call, kept beside the result of the call before
called(result) ==
  /\ probe.calls < 2
  /\ probe' = [probe EXCEPT !.calls = @ + 1,
                            !.first = IF probe.calls = 0 THEN result ELSE @,
                            !.second = IF probe.calls = 1 THEN result ELSE @]
  /\ UNCHANGED <<sessionVars, ray>>

callSelectTargets ==
  /\ probe.kind = "targets"
  /\ called(selectedTargets(probe.levelIndex, probe.difficulty, probe.stream))

callSelectDecoys ==
  /\ probe.kind = "decoys"
  /\ called(selectedDecoys(probe.levelIndex, probe.difficulty, probe.stream))

callGenerateChestTools ==
  /\ probe.kind = "tools"
  /\ \E ids \in [1..2 -> generateToolId] :
        called(tools(probe.levelIndex, probe.difficulty, probe.stream, ids))

NextGeneration ==
  \/ callSelectTargets
  \/ callSelectDecoys
  \/ callGenerateChestTools

SpecGeneration == InitGeneration /\ [][NextGeneration]_vars

(***************************************************************************)
(* Properties of the win trigger and of target and decoy resolution,       *)
(* under Spec.                                                             *)
(***************************************************************************)
\* the targets that a step marks found, the decoys that a step reveals
newlyFound == {i \in DOMAIN targets : i \in DOMAIN targets' /\ ~targets[i].found /\ targets'[i].found}
newlyRevealed == {i \in DOMAIN decoys : i \in DOMAIN decoys' /\ ~decoys[i].revealed /\ decoys'[i].revealed}

\* a step that takes the session into phase won
entersWon == phase # "won" /\ phase' = "won"

\* C1: a run is won exactly once, WIN_DELAY_MS after the find that took
\* foundCount from requiredCount - 1 to requiredCount, and never while
\* foundCount is below requiredCount: every step into phase won is the first
\* of its run, at least 500 ms after that find, with foundCount = requiredCount.
C1_WonOnceAfterLastFind ==
  [][entersWon => /\ foundCount = requiredCount
                  /\ hist.wins = 0
                  /\ hist.completedAt # None
                  /\ now >= hist.completedAt + 500]_vars

\* C2: a win deadline armed in an earlier run has no effect on the run that
\* replaced it: the session is in phase won, or its last log entry is a
\* game_end, only with every required target of the current run found.
C2_StaleWinIgnored ==
  (phase = "won" \/ log.last.eventType = "game_end") => foundCount = requiredCount

\* C3: phase won is entered only from phase playing (never from paused or
\* menu) and only with foundCount = requiredCount.
C3_WonOnlyFromPlaying ==
  [][entersWon => phase = "playing" /\ foundCount = requiredCount]_vars

\* C4: foundCount never exceeds requiredCount.
C4_FoundAtMostRequired == foundCount <= requiredCount

\* C4 case: every required target of a run is found while the run is played
C4_AllFound ==
  /\ phase = "playing"
  /\ requiredCount = Len(targets)
  /\ foundCount = requiredCount
  /\ \A i \in DOMAIN targets : targets[i].found

\* C5: findTarget on a target already found, and selectDecoy on a decoy
\* already revealed, leave foundCount, wrongSelections, targets and decoys
\* unchanged (a step that changes one of the four is neither of the two),
\* and a step counts a target only when it marks it found: no target is
\* counted twice within a run.
C5_ResolutionIdempotent ==
  [][ /\ \/ UNCHANGED <<foundCount, wrongSelections, targets, decoys>>
         \/ /\ \A i \in DOMAIN targets :
                  ~(targets[i].found /\ findTarget(targets[i].id))
            /\ \A i \in DOMAIN decoys :
                  ~(decoys[i].revealed /\ selectDecoy(decoys[i].id))
      /\ runId' = runId => foundCount' - foundCount = Cardinality(newlyFound) ]_vars

\* C5 case: a found target and a revealed decoy can be held again
C5_Resolved ==
  /\ phase = "playing"
  /\ ~chestOpen
  /\ \E i \in DOMAIN targets : targets[i].found /\ targets[i].id \in heldTargetIds
  /\ \E i \in DOMAIN decoys : decoys[i].revealed

\* C6: within a run wrongSelections never decreases, and a step raises it by
\* exactly one for each decoy it reveals for the first time.
C6_WrongSelectionsCount ==
  [][runId' = runId => /\ wrongSelections' >= wrongSelections
                       /\ wrongSelections' - wrongSelections = Cardinality(newlyRevealed)]_vars

\* C6 case: a decoy was selected, and the run went on to find a target
C6_DecoySelected ==
  /\ wrongSelections >= 1
  /\ \E i \in DOMAIN decoys : decoys[i].revealed
  /\ foundCount >= 1


(***************************************************************************)
(* Properties of the inventory, under SpecInventory.                       *)
(***************************************************************************)
\* C7: the inventory never holds more than 4 tools, and addToolToInventory
\* on an inventory of 4 leaves the inventory as it is and appends one
\* warning toast.
C7_InventoryAtMostFour ==
  [][ /\ Len(inventory) <= 4
      /\ Len(inventory') <= 4
      /\ \A tool \in ExternalTools :
           (Len(inventory) = 4 /\ addToolToInventory(tool))
             => /\ inventory' = inventory
                /\ Len(toasts') = Len(toasts) + 1
                /\ SubSeq(toasts', 1, Len(toasts)) = toasts
                /\ toasts'[Len(toasts')].type = "warning" ]_vars

\* C7 case: a tool was offered to an inventory of 4
C7_FullRejected ==
  /\ Len(inventory) = 4
  /\ toasts # <<>>
  /\ toasts[Len(toasts)].message = <<"Inventory full!">>
  /\ toasts[Len(toasts)].type = "warning"

(***************************************************************************)
(* Properties of the timer, under SpecTimer.                               *)
(***************************************************************************)
\* a step of resumeGame that ends a pause
resumes == phase = "paused" /\ phase' = "playing" /\ runId' = runId

\* C8: time spent paused is not counted: with timeElapsed = E at pauseGame,
\* a tick d after the resumeGame that ended the pause sets timeElapsed to
\* E + d, whatever the length of the pause.
C8_PauseNotCounted ==
  [][(hist.resumedAt # None /\ hist' = hist /\ timeElapsed' # timeElapsed)
       => timeElapsed' = hist.elapsedAtPause + (now' - hist.resumedAt)]_vars

\* C8 case: a pause of positive length after a positive elapsed time, and a
\* tick a positive time after its end
C8_TickedAfterPause ==
  /\ hist.resumedAt # None
  /\ hist.elapsedAtPause > 0
  /\ hist.pausedFor > 0
  /\ now > hist.resumedAt
  /\ timeElapsed = hist.elapsedAtPause + (now - hist.resumedAt)

\* C9: resumeGame moves startTime forward by exactly the time between the
\* pauseGame and the resumeGame, whatever happened before the pause.
C9_ShiftIsPauseLength ==
  [][resumes => startTime' - startTime = now - hist.pausedAt]_vars

\* C10: within a run timeElapsed never decreases.
C10_ElapsedNeverDecreases ==
  [][runId' = runId => timeElapsed' >= timeElapsed]_vars

\* C10 case: the timer ran, was paused for a while, and ran again
C10_RanPausedRan ==
  /\ phase = "playing"
  /\ hist.resumedAt # None
  /\ hist.pausedFor > 0
  /\ hist.elapsedAtPause > 0
  /\ timeElapsed > hist.elapsedAtPause

(***************************************************************************)
(* Properties of the timer's start and freeze, under SpecTimer.            *)
(***************************************************************************)
\* the player is engaged: pointer locked (desktop), first touch made (touch)
engagedNow ==
  \/ ~isMobileDevice /\ isPointerLocked
  \/ isMobileDevice /\ mobileGameStarted

\* C11: tick leaves timeElapsed unchanged whenever the phase is not playing,
\* and whenever the phase is playing but the player is not engaged: no step
\* taken in such a state changes the timeElapsed of the run.
C11_FrozenUnlessEngaged ==
  [][((phase # "playing" \/ ~engagedNow) /\ runId' = runId)
       => timeElapsed' = timeElapsed]_vars

\* C11 case: frames have run while the phase was playing and the player was
\* not engaged, and while the phase was paused
C11_FramesWhileIdle ==
  /\ phase \in {"playing", "paused"}
  /\ ~engagedNow
  /\ now - startTime > timeElapsed

\* C12: the timer starts when the player first engages: the time between
\* startGame and the first engagement of the run is not part of timeElapsed,
\* which is 0 before that moment and at most the time since it afterwards.
C12_TimerStartsAtEngagement ==
  /\ hist.engagedAt = None => timeElapsed = 0
  /\ hist.engagedAt # None => timeElapsed <= now - hist.engagedAt

(***************************************************************************)
(* Properties of the phases, under SpecPhase.                              *)
(***************************************************************************)
\* the phase changes of the state diagram
PhaseChangesForeseen ==
  {<<"name_entry", "menu">>,
   <<"menu", "playing">>, <<"paused", "playing">>, <<"won", "playing">>,
   <<"playing", "paused">>, <<"playing", "won">>}
    \cup {<<p, "menu">> : p \in GamePhase}

\* C13: the initial phase is name_entry, and every phase change is one of
\* name_entry to menu, {menu, paused, won} to playing, playing to paused,
\* paused to playing, playing to won, and any phase to menu; in particular
\* playing is never entered directly from name_entry.
C13_PhaseChanges ==
  /\ phase = "name_entry"
  /\ [][phase' # phase => <<phase, phase'>> \in PhaseChangesForeseen]_vars

\* a step of goToMenu: the menu is entered from a run
entersMenu == phase \in {"playing", "paused", "won"} /\ phase' = "menu"

\* C16: goToMenu sets the phase to menu, resets the level index to 0 and
\* empties the inventory and the toast list, and the phase then stays menu
\* until the player starts a game or returns to the name entry.
C16_MenuUntilPlayerActs ==
  [][ /\ entersMenu => currentLevelIndex' = 0 /\ inventory' = <<>> /\ toasts' = <<>>
      /\ (phase = "menu" /\ phase' # "menu") => (handlePlay \/ handlePlayNow \/ editName) ]_vars

(***************************************************************************)
(* Properties of phase won, under Spec.                                    *)
(***************************************************************************)
\* C17: once the phase is won, timeElapsed, wrongSelections and foundCount
\* (and the final score) stay as they are for as long as the phase is won,
\* and pauseGame, resumeGame and tick change nothing in won.
C17_WonKeepsCounters ==
  [][phase = "won" =>
       /\ phase' = "won" =>
            /\ UNCHANGED <<timeElapsed, wrongSelections, foundCount>>
            /\ getFinalScore(timeElapsed', wrongSelections')
                 = getFinalScore(timeElapsed, wrongSelections)
       /\ (pauseGame \/ resumeGame \/ tick) => UNCHANGED vars]_vars

\* C17 case: the run is won while the pointer is locked and the last tick is
\* older than the clock
C17_WonWhileEngaged ==
  /\ phase = "won"
  /\ isPointerLocked
  /\ foundCount = requiredCount
  /\ now - startTime > timeElapsed

(***************************************************************************)
(* Properties of invalid attempts, under Spec.                             *)
(***************************************************************************)
\* id is the id of no item of the list
absent(items, id) == \A i \in 1..Len(items) : items[i].id # id

\* a call of the store's useTool(id), findTarget(id), selectDecoy(id)
useToolCall(id) ==
  /\ UNCHANGED <<phase, difficulty, currentLevelIndex, runId, startTime, timeElapsed,
                 wrongSelections, targets, foundCount, requiredCount, decoys,
                 chestOpen, chestTools, isPointerLocked, isMobileDevice,
                 mobileGameStarted, now, winTimers, log, hist, scope,
                 shareData, probe, ray>>
  /\ useTool(id)
findTargetCall(id) ==
  /\ UNCHANGED <<phase, difficulty, currentLevelIndex, runId, startTime, timeElapsed,
                 wrongSelections, requiredCount, decoys, inventory, chestOpen,
                 chestTools, isPointerLocked, isMobileDevice, mobileGameStarted,
                 now, log, scope, hintVars, shareData, probe, ray>>
  /\ findTarget(id)
selectDecoyCall(id) ==
  /\ UNCHANGED <<phase, difficulty, currentLevelIndex, runId, startTime, timeElapsed,
                 targets, foundCount, requiredCount, inventory, chestOpen,
                 chestTools, isPointerLocked, isMobileDevice, mobileGameStarted,
                 now, winTimers, log, hist, scope, hintVars, shareData, probe, ray>>
  /\ selectDecoy(id)

\* the ids tried: 0, which is never the id of an item, and the id after the
\* last target's
AttemptIds == {0, Len(targets) + 1}

\* an invalid attempt: pauseGame outside playing, resumeGame outside paused,
\* useTool, findTarget or selectDecoy with an id that is not there
invalidAttempt ==
  \/ phase # "playing" /\ pauseGame
  \/ phase # "paused" /\ resumeGame
  \/ \E id \in AttemptIds : absent(inventory, id) /\ useToolCall(id)
  \/ \E id \in AttemptIds : absent(targets, id) /\ findTargetCall(id)
  \/ \E id \in AttemptIds : absent(decoys, id) /\ selectDecoyCall(id)

\* C14: invalid attempts are silent no-ops: a step that is an invalid attempt
\* leaves the whole session state unchanged.
C14_InvalidAttemptsIgnored == [][invalidAttempt => UNCHANGED vars]_vars

\* C14 case: a paused run with a found target and a revealed decoy, where
\* pauseGame and the calls with id 0 are invalid attempts
C14_AttemptsPossible ==
  /\ phase = "paused"
  /\ \E i \in DOMAIN targets : targets[i].found
  /\ \E i \in DOMAIN decoys : decoys[i].revealed
  /\ absent(targets, 0) /\ absent(decoys, 0) /\ absent(inventory, 0)

\* C15: a step that starts a run (startGame, from the menu, a restart or
\* the next level) ends in phase playing with the clock, the mistakes and
\* the found count at zero, inventory and toasts empty, every target unfound,
\* every decoy unrevealed, the chest closed and no hint or reveal active.
freshRun ==
  /\ phase' = "playing"
  /\ timeElapsed' = 0
  /\ wrongSelections' = 0
  /\ foundCount' = 0
  /\ inventory' = <<>>
  /\ toasts' = <<>>
  /\ \A i \in 1..Len(targets') : ~targets'[i].found
  /\ \A i \in 1..Len(decoys') : ~decoys'[i].revealed
  /\ ~chestOpen'
  /\ hintedTargetId' = None
  /\ revealQuadrant' = "null"

C18_GenerationRepeats ==
  (probe.kind \in {"targets", "decoys", "tools"} /\ probe.calls = 2)
    => probe.first = probe.second

\* the same for the two functions that take their ids from the position
C18_SampledListsRepeat ==
  (probe.kind \in {"targets", "decoys"} /\ probe.calls = 2)
    => probe.first = probe.second

\* the targets were generated twice, five of them each time
C18_TargetsGeneratedTwice ==
  /\ probe.kind = "targets"
  /\ probe.calls = 2
  /\ Len(probe.first) = 5

\* C19: getFinalScore returns timeElapsed + wrongSelections x 10 (seconds;
\* x 10000 in milliseconds) for the counters of the session, no smaller for
\* a larger time or more mistakes, no larger for a smaller time or fewer
\* mistakes, and leaves the session as it was.
ScoreTimes == {k * ClockStep : k \in 0..MaxTimerSteps}

ScoreMistakes == 0..(MaxDecoyPool + 1)

C19_FinalScore ==
  [][probe' # probe =>
       /\ UNCHANGED <<sessionVars, ray>>
       /\ probe'.score = timeElapsed + wrongSelections * 10000
       /\ \A t \in ScoreTimes, w \in ScoreMistakes :
            /\ (t >= timeElapsed /\ w >= wrongSelections)
                 => getFinalScore(t, w) >= probe'.score
            /\ (t <= timeElapsed /\ w <= wrongSelections)
                 => getFinalScore(t, w) <= probe'.score]_vars

\* the win screen has read the score of a run with time on the clock and a
\* wrong selection
C19_ScoreRead ==
  /\ probe.kind = "score"
  /\ phase = "won"
  /\ timeElapsed > 0
  /\ wrongSelections > 0
  /\ probe.score > timeElapsed

\* C20: sample(array, n) returns exactly min(n, array.length) elements, each
\* from a position of its own in the input; when n is at least the length
\* the result holds every element of the array exactly as often as the array
\* does.
occurrences(array, v) == Cardinality({k \in DOMAIN array : array[k] = v})

C20_SampleSizeAndPositions ==
  (probe.kind = "sample" /\ probe.done) =>
    LET array == probe.array
        result == probe.result
    IN  /\ Len(result) = Min(probe.n, Len(array))
        /\ \E pos \in [1..Len(result) -> 1..Len(array)] :
             /\ \A k, l \in 1..Len(result) : pos[k] = pos[l] => k = l
             /\ \A k \in 1..Len(result) : result[k] = array[pos[k]]
        /\ probe.n >= Len(array) =>
             \A v \in SampleValues : occurrences(result, v) = occurrences(array, v)

\* sample has returned part of an array with equal elements, in another order
C20_SampledPart ==
  /\ probe.kind = "sample"
  /\ probe.done
  /\ probe.array = <<"a", "a", "b">>
  /\ probe.n = 2
  /\ probe.result = <<"b", "a">>

\* C21: the reveal tool answers center exactly when |x| <= 2 and |z| <= 2;
\* when one axis alone exceeds the threshold it answers east for x > 2, west
\* for x < -2, south for z > 2 and north for z < -2.
C21_CenterAndSingleAxis ==
  (probe.kind = "quadrant" /\ probe.done) =>
    LET x == probe.position[1]
        z == probe.position[2]
    IN  /\ probe.quadrant = "center" <=> (Abs(x) <= 20 /\ Abs(z) <= 20)
        /\ (Abs(z) <= 20 /\ x > 20) => probe.quadrant = "east"
        /\ (Abs(z) <= 20 /\ x < -20) => probe.quadrant = "west"
        /\ (Abs(x) <= 20 /\ z > 20) => probe.quadrant = "south"
        /\ (Abs(x) <= 20 /\ z < -20) => probe.quadrant = "north"

\* the position (3, 0) has been classified as east
C21_ThreeZeroIsEast ==
  /\ probe.kind = "quadrant"
  /\ probe.done
  /\ probe.position = <<30, 0>>
  /\ probe.quadrant = "east"

\* C22: when both offsets exceed the threshold the axis with the larger
\* absolute offset decides: east or west when |x| > |z|, north or south
\* when |z| > |x|.
C22_DominantAxis ==
  (probe.kind = "quadrant" /\ probe.done) =>
    LET x == probe.position[1]
        z == probe.position[2]
    IN  (Abs(x) > 20 /\ Abs(z) > 20) =>
          /\ Abs(x) > Abs(z) => probe.quadrant = IF x > 0 THEN "east" ELSE "west"
          /\ Abs(z) > Abs(x) => probe.quadrant = IF z > 0 THEN "south" ELSE "north"

\* C23: useTool with the id of a tool in the inventory removes exactly that
\* tool: the inventory is the old one without one position that held the id,
\* the other tools in their order, whether or not an unfound target remains.
withoutPosition(items, i) == SubSeq(items, 1, i - 1) \o SubSeq(items, i + 1, Len(items))

C23_UseToolRemovesThatTool ==
  [][\A id \in usedToolIds :
       (~absent(inventory, id) /\ useToolCall(id)) =>
         \E i \in 1..Len(inventory) :
           /\ inventory[i].id = id
           /\ inventory' = withoutPosition(inventory, i)]_vars

\* the hint was used when every target was found, and the reveal tool taken
\* with it is still in the inventory
C23_UsedWithNoTargetLeft ==
  /\ unfound = {}
  /\ targets # <<>>
  /\ \E i \in 1..Len(toasts) : toasts[i].message = <<"No targets left!">>
  /\ Len(inventory) = 1
  /\ inventory[1].type = "reveal"

requestEnds == log'.pending < log.pending \/ log'.failed # log.failed

C25_LoggingNeverGates ==
  /\ []((phase = "menu" /\ runId < MaxRuns) => ENABLED handlePlay)
  /\ []((winTimers # <<>> /\ Head(winTimers).due <= now) => ENABLED winTimeout)
  /\ [][requestEnds =>
          /\ logFrame
          /\ log'.count = log.count
          /\ log'.last = log.last
          /\ log'.pending = log.pending - 1]_vars

\* a run was started and won although its game_start request failed and its
\* game_end request is still in flight
C25_WonWithFailedRequest ==
  /\ phase = "won"
  /\ foundCount = requiredCount
  /\ log.count = 2
  /\ log.failed = 1
  /\ log.pending = 1
  /\ log.last.eventType = "game_end"

\* C26: exactly one game_end event is emitted per won run, at the change from
\* playing to won, and it carries the counters of the run that was won:
\* targetsFound = requiredCount, that run's wrong selections and elapsed time
\* and finalScore = elapsed + 10 x wrongSelections.
gameEndEmitted == log'.count = log.count + 1 /\ log'.last.eventType = "game_end"

C26_OneGameEndPerWonRun ==
  [][/\ (phase = "playing" /\ phase' = "won") => gameEndEmitted
     /\ gameEndEmitted =>
          /\ phase = "playing" /\ phase' = "won"
          /\ hist.completedAt # None
          /\ log'.last.targetsFound = requiredCount
          /\ log'.last.requiredCount = requiredCount
          /\ log'.last.wrongSelections = wrongSelections
          /\ log'.last.timeElapsed = roundTenth(timeElapsed)
          /\ log'.last.finalScore
               = roundTenth(timeElapsed + 10000 * wrongSelections)]_vars

holdsShareData(value) ==
  /\ value.t = "object"
  /\ \A f \in DOMAIN ShareKeys :
       \E k \in 1..Len(value.keys) :
         /\ value.keys[k] = ShareKeys[f]
         /\ value.vals[k].t = (IF f = "score" THEN "number" ELSE "string")

\* C28 (second half): decodeShareData returns null, and never throws, unless
\* its input decodes to an object holding playerName, level and difficulty
\* strings and a numeric score
C28_DecodeValidates ==
  probe.kind \in {"share", "decode"} /\ probe.stage = "decoded"
    => probe.result = Null \/ holdsShareData(probe.result)

\* C28 (first half, finite scores): decodeShareData(encodeShareData(d)) = d
\* for every d whose score is a finite number
C28_FiniteScoreRoundTrips ==
  probe.kind = "share" /\ probe.stage = "decoded" /\ probe.data.vals[2].finite
    => probe.result = probe.data

C28_ForeignTextRejected ==
  probe.kind = "decode" /\ probe.stage = "decoded" /\ probe.result = Null

C28_ForeignTextAccepted ==
  probe.kind = "decode" /\ probe.stage = "decoded" /\ probe.result # Null
    /\ probe.result # SampleShareData

C29_LevelItems ==
  probe.kind \in {"targets", "decoys"} /\ probe.calls > 0
    => /\ \A i \in DOMAIN probe.first :
            probe.first[i].holdSecondsRequired
              = DIFFICULTY_SETTINGS[probe.difficulty].holdSeconds
       /\ \A i, j \in DOMAIN probe.first :
            i # j => probe.first[i].id # probe.first[j].id

C30_LevelRunsCanBeWon ==
  phase \in {"playing", "paused"} => requiredCount = Len(targets)

(***************************************************************************)
(* Properties of the chest's tools, under SpecGeneration.                  *)
(***************************************************************************)
\* C31: the chest of every run holds at most 2 tools, each tool type (hint,
\* reveal) at most once, and on easy difficulty it holds at least 1 tool.
C31_ChestTools ==
  probe.kind = "tools" /\ probe.calls > 0
    => /\ Len(probe.first) <= 2
       /\ \A i, j \in DOMAIN probe.first :
            i # j => probe.first[i].type # probe.first[j].type
       /\ \A i \in DOMAIN probe.first : probe.first[i].type \in {"hint", "reveal"}
       /\ probe.difficulty = "easy" => Len(probe.first) >= 1

\* an easy chest was generated after neither tool spawned by chance
C31_EasyChestForced ==
  /\ probe.kind = "tools" /\ probe.calls > 0 /\ probe.difficulty = "easy"
  /\ \A k \in 1..2 : ~bool(probe.stream[k], toolSpawnChance[probe.levelIndex + 1] * 7)
  /\ Len(probe.first) = 1

\* C32: the target layout of a run depends only on (levelId, runId): for one
\* level and one generator stream the selected targets (which candidates,
\* their order, ids and positions) are the same for every difficulty; only
\* holdSecondsRequired may differ.  Stated against the normal difficulty:
\* the targets of every difficulty are those of normal but for the hold time.
C32_LayoutStable ==
  probe.kind = "targets" /\ probe.calls = 1
    => LET again == selectedTargets(probe.levelIndex, "normal", probe.stream)
       IN  /\ Len(again) = Len(probe.first)
           /\ \A i \in DOMAIN again :
                [again[i] EXCEPT !.holdSecondsRequired = 0]
                  = [probe.first[i] EXCEPT !.holdSecondsRequired = 0]

\* the targets of an easy run were generated, and a hard run of the same
\* level and run id differs from it in the hold time
C32_EasyLayoutGenerated ==
  /\ probe.kind = "targets" /\ probe.calls > 0 /\ probe.difficulty = "easy"
  /\ Len(probe.first) = 5
  /\ selectedTargets(probe.levelIndex, "hard", probe.stream) # probe.first

\* C33: whatever the camera sees, hover resolution picks nothing exactly when
\* no unfound target (in range and in its vantage zone) and no unrevealed
\* decoy (in range) has a cosine above TARGET_DOT_THRESHOLD, and otherwise
\* picks one of these whose cosine no other of them exceeds, target or decoy
C33_HoverPicksBest ==
  phase = "playing" =>
    \A c \in Cameras :
      LET picked == foundHover(targets, decoys, c,
                               DIFFICULTY_SETTINGS[difficulty].holdSeconds)
          seen ==
            {[type |-> "target", id |-> targets[i].id, dot |-> c.targets[i].dot] :
               i \in {j \in 1..Min(Len(targets), Len(c.targets)) :
                        /\ ~targets[j].found
                        /\ c.targets[j].inRange
                        /\ c.targets[j].inZone}}
            \cup
            {[type |-> "decoy", id |-> decoys[i].id, dot |-> c.decoys[i].dot] :
               i \in {j \in 1..Min(Len(decoys), Len(c.decoys)) :
                        /\ ~decoys[j].revealed
                        /\ c.decoys[j].inRange}}
          above == {x \in seen : x.dot > TARGET_DOT_THRESHOLD}
      IN  /\ picked = NoRay.hoveredItem <=> above = {}
          /\ picked # NoRay.hoveredItem =>
               \E x \in above :
                  /\ x.type = picked.type
                  /\ x.id = picked.id
                  /\ \A y \in above : y.dot <= x.dot

\* C33 witness: a decoy seen from outside any vantage zone is hovered while
\* the first target, not yet found, is in range with a cosine above the
\* threshold but below the decoy's
C33_DecoyOutranksTarget ==
  /\ phase = "playing"
  /\ ray.hoveredItem.type = "decoy"
  /\ ~targets[1].found
  /\ ray.camera.targets[1] = [inRange |-> TRUE, inZone |-> TRUE, dot |-> 900]
  /\ ray.camera.decoys[1] = [inRange |-> TRUE, inZone |-> FALSE, dot |-> 950]

\* C34 (as stated): whenever the hovered item changes, the hold in progress
\* is reset to zero
C34_HoverChangeResetsHold ==
  [][ray'.hoveredItem # ray.hoveredItem
       => /\ ray'.holdProgress = 0
          /\ ~ray'.isHolding
          /\ ray'.holdStartTime = None]_vars

\* C35: a handleMouseUp during a hold whose progress is below 1 sets the
\* hold progress to 0 and leaves the store as it is, and foundCount,
\* wrongSelections, targets and decoys are those of the handleMouseDown that
\* started the hold
C35_ReleaseCancelsHold ==
  [][(handleMouseUp /\ ray.isHolding /\ ray.holdProgress < 1000)
       => /\ ray'.holdProgress = 0
          /\ UNCHANGED <<sessionVars, probe>>
          /\ ray.atDown = [foundCount |-> foundCount',
                           wrongSelections |-> wrongSelections',
                           targets |-> targets', decoys |-> decoys']]_vars

\* C35 witness: the action was released during a hold that had made
\* progress, in a run in which a target had been found before
C35_ReleasedMidHold ==
  /\ phase = "playing"
  /\ ray.released = 1
  /\ ray.hoveredItem.type # "none"
  /\ foundCount = 1

\* C36: while the phase is not playing or the chest is open no step of a run
\* changes foundCount, wrongSelections, targets or decoys, and a frame of the
\* InteractRaycaster leaves no item hovered
C36_NoResolutionWhileStopped ==
  [][(phase # "playing" \/ chestOpen)
       => /\ runId' = runId =>
               UNCHANGED <<foundCount, wrongSelections, targets, decoys>>
          /\ useFrame => ray'.hoveredItem.type = "none"]_vars

\* C36 witness: the game is paused with the action still down for longer
\* than the hold of the item that was hovered (the hold had made progress),
\* the item not resolved and nothing hovered
C36_PausedWithActionDown ==
  /\ phase = "paused"
  /\ ray.isHolding
  /\ ray.holdProgress > 0
  /\ ray.hoveredItem.type = "none"
  /\ ray.holdStartTime # None
  /\ now - ray.holdStartTime >= DIFFICULTY_SETTINGS[difficulty].holdSeconds * 1000
  /\ foundCount = 0
  /\ wrongSelections = 0

\* C37: a tick that runs while playing and engaged at or after the end time
\* of the hint (of the reveal) clears it, and within a run the hint (the
\* reveal) is never cleared before its end time
C37_HighlightExpiry ==
  [][/\ ((tick \/ longFrame) /\ phase = "playing" /\ isActive)
          => /\ (hintedTargetId # None /\ now' >= hintEndTime)
                  => hintedTargetId' = None
             /\ (revealQuadrant # "null" /\ now' >= revealEndTime)
                  => revealQuadrant' = "null"
     /\ runId' = runId
          => /\ (hintedTargetId # None /\ hintedTargetId' = None)
                  => now' >= hintEndTime
             /\ (revealQuadrant # "null" /\ revealQuadrant' = "null")
                  => now' >= revealEndTime]_vars

\* C37 witness: the hint of the run has been cleared at its end time while
\* the reveal, used later, is still shown before its own
C37_HintEndedRevealShown ==
  /\ phase = "playing"
  /\ hintedTargetId = None
  /\ hintEndTime > 0
  /\ now >= hintEndTime
  /\ revealQuadrant # "null"
  /\ now < revealEndTime

\* C38: in every state foundCount is the number of targets of the run whose
\* found flag is set and wrongSelections the number of its decoys whose
\* revealed flag is set
C38_CountersMatchFlags ==
  /\ foundCount = Cardinality({i \in 1..Len(targets) : targets[i].found})
  /\ wrongSelections = Cardinality({i \in 1..Len(decoys) : decoys[i].revealed})

\* C38 witness: in the second run of a session two targets are found and a
\* decoy is revealed
C38_SecondRunCounted ==
  /\ runId = 2
  /\ foundCount = 2
  /\ wrongSelections = 1

C40_LastFindLeadsToWon ==
  /\ [][foundCount < requiredCount /\ foundCount' = requiredCount'
          => /\ Len(winTimers') = Len(winTimers) + 1
             /\ winTimers'[Len(winTimers')].due = now + WIN_DELAY_MS]_vars
  /\ []((phase \in {"playing", "paused"} /\ foundCount = requiredCount)
          => \E i \in 1..Len(winTimers) :
                winTimers[i].due = hist.completedAt + WIN_DELAY_MS)
  /\ \A r \in 0..MaxRuns :
        (/\ runId = r
         /\ phase \in {"playing", "paused"}
         /\ foundCount = requiredCount
         /\ hist.completedAt + WIN_DELAY_MS <= scope.steps * ClockStep)
          ~> (phase = "won" \/ runId # r)

\* C40 witness: the first run is won by its own timer, WIN_DELAY_MS after its
\* last target was found, with no other timer left
C40_WonAfterDelay ==
  /\ phase = "won"
  /\ runId = 1
  /\ foundCount = requiredCount
  /\ hist.wins = 1
  /\ now = hist.completedAt + WIN_DELAY_MS
  /\ winTimers = <<>>

====
